---- MODULE Spec2Model ----
(***************************************************************************)
(* Model of the query tools of mcp-storyblok-server                        *)
(* (src/src/tools/components.ts): get-component-usage, the draft/published *)
(* merge of fetch-stories / fetch-stories-by-component / search-content,   *)
(* and the recursive content-tree matchers findComponentInValue and        *)
(* recursiveDeepSearch.                                                    *)
(***************************************************************************)
EXTENDS Integers, Sequences, FiniteSets, TLC

VARIABLES
    tool,                \* which handler (or matcher) this run executes
    pc,                  \* position of the handler
    heap,                \* content tree under test: address -> container
    root,                \* the value handed to the matcher
    call,                \* the matcher call made and its outcome
    version,             \* get-component-usage: loop variable of `for (const version of ...)`
    currentPage,         \* get-component-usage: let currentPage
    hasMore,             \* get-component-usage: let hasMore
    pagesFetched,        \* get-component-usage: let pagesFetched
    totalStoriesFetched, \* get-component-usage: let totalStoriesFetched
    limitReached,        \* get-component-usage: let limitReached
    allStoriesMap,       \* get-component-usage: Map<number, any>, in insertion order
    content_status,      \* fetch tools: params.content_status
    pending,             \* fetch tools: versions whose request has not settled
    settled,             \* fetch tools: version -> settled response
    arrival,             \* fetch tools: versions in the order their responses arrived
    result,              \* what the handler returned (or that it rejected)
    reqLog,              \* history: page requests issued, in order
    answered,            \* history: version -> number of its requests answered
    lastResp,            \* history: the response received last
    received,            \* history: version -> ids of the records received
    failedPage,          \* history: version -> the page whose request failed, or 0
    seenOrder            \* history: the ids received by the paging loop, in order of first receipt

vars == << tool, pc, heap, root, call, version, currentPage, hasMore, pagesFetched,
           totalStoriesFetched, limitReached, allStoriesMap, content_status, pending,
           settled, arrival, result, reqLog, answered, lastResp, received,
           failedPage, seenOrder >>

treeVars  == << heap, root, call >>
usageVars == << version, currentPage, hasMore, pagesFetched, totalStoriesFetched,
                limitReached, allStoriesMap >>
fetchVars == << content_status, pending, settled, arrival >>
histVars  == << reqLog, answered, lastResp, received, failedPage, seenOrder >>

(***************************************************************************)
(* Bounds of the model.                                                    *)
(***************************************************************************)
NumNodes   == 3    \* containers (objects / arrays) a content tree may hold
MaxWidth   == 2    \* fields of one object, items of one array
MaxEntries == 3    \* fields and items of one content tree, all containers together
StackLimit == 8    \* call-stack depth at which the engine raises RangeError
NumIds     == 3    \* distinct story ids the remote may return
MaxPageLen == 2    \* records on one page answered to the fetch tools
PER_PAGE   == 1    \* page size (100 in the source, scaled down)
MAX_PAGES  == 2    \* page cap per version (10 in the source, scaled down)

(***************************************************************************)
(* JSON-like values.  Containers live in a heap and are referred to by     *)
(* address, so that object identity, sharing and cycles can be expressed.  *)
(* Strings are sequences of characters.                                    *)
(***************************************************************************)
Null      == [t |-> "null"]
Undefined == [t |-> "undefined"]
Num(n)    == [t |-> "number", n |-> n]
Bool(b)   == [t |-> "boolean", b |-> b]
Str(s)    == [t |-> "string", s |-> s]
Ref(a)    == [t |-> "ref", a |-> a]

Addr == 1..NumNodes

\* A container: for an object, the own fields keys[i] -> vals[i] in property
\* order; for an array, the items vals, and its own named properties
\* keys[i] -> named[i] (properties that are not array indices).
EmptyObject == [kind |-> "object", keys |-> << >>, vals |-> << >>, named |-> << >>]
EmptyArray  == [kind |-> "array",  keys |-> << >>, vals |-> << >>, named |-> << >>]

IsArray(h, v)  == v.t = "ref" /\ h[v.a].kind = "array"
IsObject(h, v) == v.t = "ref" /\ h[v.a].kind = "object"

\* obj[key] for an own field of a plain object; undefined when absent
GetProp(node, key) ==
    IF \E i \in 1..Len(node.keys) : node.keys[i] = key
    THEN node.vals[CHOOSE i \in 1..Len(node.keys) : node.keys[i] = key]
    ELSE Undefined

\* JavaScript's !value
Falsy(v) ==
    \/ v.t \in {"null", "undefined"}
    \/ v.t = "number"  /\ v.n = 0
    \/ v.t = "string"  /\ v.s = << >>
    \/ v.t = "boolean" /\ ~v.b

(***************************************************************************)
(* Strings: String.prototype.toLowerCase and String.prototype.includes.    *)
(***************************************************************************)
LowerChar(c) ==
    CASE c = "H" -> "h"
      [] c = "X" -> "x"
      [] OTHER   -> c

\* a conversion that leaves the case as it is
KeepCase(s) == s

toLowerCase(s) == [i \in 1..Len(s) |-> LowerChar(s[i])]

includes(hay, needle) ==
    \E i \in 0..(Len(hay) - Len(needle)) : SubSeq(hay, i + 1, i + Len(needle)) = needle

(***************************************************************************)
(* findComponentInValue (get-component-usage).  The outcome is "true",     *)
(* "false", or "RangeError" when the recursion exhausts the call stack.    *)
(***************************************************************************)
\* value.component === component_name
ComponentIs(node, component_name) ==
    GetProp(node, "component") = Str(component_name)

\* a traversal that descends into arrays only
NoValuesOfObjects(node) ==
    IF node.kind = "array" THEN node.vals ELSE << >>

\* Object.values(value) / the items of an array, in order
ValuesOf(node) ==
    node.vals

RECURSIVE findComponentInValue(_, _, _, _), FindSome(_, _, _, _, _)

findComponentInValue(h, value, component_name, depth) ==
    IF depth > StackLimit THEN "RangeError"
    ELSE IF Falsy(value) THEN "false"
    ELSE IF IsArray(h, value)
         THEN FindSome(h, ValuesOf(h[value.a]), 1, component_name, depth)
    ELSE IF IsObject(h, value)
         THEN IF ComponentIs(h[value.a], component_name)
              THEN "true"
              ELSE FindSome(h, ValuesOf(h[value.a]), 1, component_name, depth)
    ELSE "false"

\* Array.prototype.some over vals[i..]: stops at the first true, and at a throw
FindSome(h, vals, i, component_name, depth) ==
    IF i > Len(vals) THEN "false"
    ELSE LET r == findComponentInValue(h, vals[i], component_name, depth + 1)
         IN  IF r = "false"
             THEN FindSome(h, vals, i + 1, component_name, depth)
             ELSE r

(***************************************************************************)
(* recursiveDeepSearch (search-content).  `visited` is the Set the code    *)
(* passes along and mutates; the outcome carries the set as the call       *)
(* leaves it.                                                              *)
(***************************************************************************)
\* a traversal without the cycle guard
NeverVisited(visited, a) ==
    FALSE

\* visited.has(currentValue)
VisitedHas(visited, a) ==
    a \in visited

\* an exit that leaves the container in the set
KeepVisited(visited, a) == visited

\* visited.delete(currentValue)
VisitedDelete(visited, a) == visited \ {a}

RECURSIVE recursiveDeepSearch(_, _, _, _, _), DeepLoop(_, _, _, _, _, _)

recursiveDeepSearch(h, currentValue, visited, lowerCaseQuery, depth) ==
    IF depth > StackLimit THEN [r |-> "RangeError", visited |-> visited]
    ELSE IF currentValue.t \in {"null", "undefined"}
         THEN [r |-> "false", visited |-> visited]
    ELSE IF currentValue.t = "string"
         THEN [r |-> IF includes(toLowerCase(currentValue.s), lowerCaseQuery)
                     THEN "true" ELSE "false",
               visited |-> visited]
    ELSE IF currentValue.t # "ref" \/ VisitedHas(visited, currentValue.a)
         THEN [r |-> "false", visited |-> visited]
    ELSE DeepLoop(h, currentValue.a, 1, visited \cup {currentValue.a},
                  lowerCaseQuery, depth)

\* the for loops over the items / own fields of container a, from position i
DeepLoop(h, a, i, visited, lowerCaseQuery, depth) ==
    IF i > Len(h[a].vals)
    THEN [r |-> "false", visited |-> VisitedDelete(visited, a)]
    ELSE LET res == recursiveDeepSearch(h, h[a].vals[i], visited,
                                        lowerCaseQuery, depth + 1)
         IN  CASE res.r = "true"  -> [r |-> "true", visited |-> VisitedDelete(res.visited, a)]
               [] res.r = "false" -> DeepLoop(h, a, i + 1, res.visited,
                                              lowerCaseQuery, depth)
               [] OTHER           -> res

(***************************************************************************)
(* getValueByPath and setByPath (fetch-stories).  A path is the sequence   *)
(* of its segments, as path.split('.') yields them.  Object.prototype      *)
(* contributes the inherited members ProtoKeys, which are functions.       *)
(***************************************************************************)
\* /^\d+$/.test(part)
IsDigits(part) == part \in {"0", "1", "01"}

\* parseInt(part, 10)
ParseInt(part) ==
    CASE part = "0"  -> 0
      [] part = "1"  -> 1
      [] part = "01" -> 1

\* the property name is an array index (the canonical form of an integer)
IsIndexKey(part) == part \in {"0", "1"}

ProtoKeys == {"toString"}

Fn == [t |-> "function"]

HasKey(keys, key) == \E i \in 1..Len(keys) : keys[i] = key

KeyPos(keys, key) == CHOOSE i \in 1..Len(keys) : keys[i] = key

\* the container has an own property of that name: an item of an array at
\* that index, a named property of an array, a field of an object
IsOwn(node, part) ==
    IF node.kind = "array" /\ IsIndexKey(part)
    THEN ParseInt(part) < Len(node.vals)
    ELSE HasKey(node.keys, part)

\* a membership test that also finds inherited members (the `in` operator)
HasProperty(node, part) == part \in ProtoKeys \/ IsOwn(node, part)

\* Object.prototype.hasOwnProperty.call(current, part)
HasOwnProperty(node, part) == IsOwn(node, part)

\* the value of an own property
OwnValue(node, part) ==
    IF node.kind = "array"
    THEN IF IsIndexKey(part) THEN node.vals[ParseInt(part) + 1]
         ELSE node.named[KeyPos(node.keys, part)]
    ELSE node.vals[KeyPos(node.keys, part)]

\* current[part], read: own property, inherited member, or undefined
PropRead(node, part) ==
    IF IsOwn(node, part) THEN OwnValue(node, part)
    ELSE IF part \in ProtoKeys THEN Fn
    ELSE Undefined

\* arr[index] = value: the array grows as needed, the gap is left empty
IndexWrite(node, index, value) ==
    LET n == IF index + 1 > Len(node.vals) THEN index + 1 ELSE Len(node.vals)
    IN  [node EXCEPT !.vals = [i \in 1..n |-> IF i = index + 1 THEN value
                                              ELSE IF i <= Len(node.vals) THEN node.vals[i]
                                              ELSE Undefined]]

\* where a new key goes in the property order of an object: index keys come
\* first in ascending order, the other keys follow in order of insertion
InsertPos(keys, key) ==
    IF IsIndexKey(key)
    THEN 1 + Cardinality({i \in 1..Len(keys) :
                            IsIndexKey(keys[i]) /\ ParseInt(keys[i]) < ParseInt(key)})
    ELSE Len(keys) + 1

InsertAt(seq, pos, x) ==
    [i \in 1..(Len(seq) + 1) |-> IF i < pos THEN seq[i]
                                 ELSE IF i = pos THEN x ELSE seq[i - 1]]

\* current[part] = value
PropWrite(node, part, value) ==
    IF node.kind = "array"
    THEN IF IsIndexKey(part) THEN IndexWrite(node, ParseInt(part), value)
         ELSE IF HasKey(node.keys, part)
              THEN [node EXCEPT !.named[KeyPos(node.keys, part)] = value]
              ELSE [node EXCEPT !.keys = Append(@, part), !.named = Append(@, value)]
    ELSE IF HasKey(node.keys, part)
         THEN [node EXCEPT !.vals[KeyPos(node.keys, part)] = value]
         ELSE LET pos == InsertPos(node.keys, part)
              IN  [node EXCEPT !.keys = InsertAt(@, pos, part),
                               !.vals = InsertAt(@, pos, value)]

RECURSIVE GetWalk(_, _, _, _)
\* the for loop of getValueByPath from segment i on
GetWalk(h, current, parts, i) ==
    IF i > Len(parts) THEN current
    ELSE IF current.t \in {"null", "undefined"} THEN Undefined
    ELSE IF IsDigits(parts[i]) /\ IsArray(h, current)
         THEN IF ParseInt(parts[i]) >= Len(h[current.a].vals)
              THEN Undefined
              ELSE GetWalk(h, h[current.a].vals[ParseInt(parts[i]) + 1], parts, i + 1)
    ELSE IF current.t = "ref" /\ HasOwnProperty(h[current.a], parts[i])
         THEN GetWalk(h, PropRead(h[current.a], parts[i]), parts, i + 1)
    ELSE Undefined

getValueByPath(h, obj, parts) ==
    IF obj.t \in {"null", "undefined"} THEN Undefined
    ELSE GetWalk(h, obj, parts, 1)

RECURSIVE SetWalk(_, _, _, _, _)
\* the for loop of setByPath from segment i on, then the final assignment;
\* yields the heap as the call leaves it
SetWalk(h, a, parts, i, value) ==
    IF i = Len(parts)
    THEN IF h[a].kind = "array" /\ IsDigits(parts[i])
         THEN [h EXCEPT ![a] = IndexWrite(h[a], ParseInt(parts[i]), value)]
         ELSE [h EXCEPT ![a] = PropWrite(h[a], parts[i], value)]
    ELSE LET existing == PropRead(h[a], parts[i])
         IN  IF Falsy(existing) \/ existing.t # "ref"
             THEN LET fresh == IF IsDigits(parts[i + 1]) THEN EmptyArray ELSE EmptyObject
                      new   == Len(h) + 1
                      h1    == [Append(h, fresh) EXCEPT
                                   ![a] = PropWrite(h[a], parts[i], Ref(new))]
                  IN  SetWalk(h1, PropRead(h1[a], parts[i]).a, parts, i + 1, value)
             ELSE SetWalk(h, existing.a, parts, i + 1, value)

setByPath(h, obj, parts, value) == SetWalk(h, obj.a, parts, 1, value)

(***************************************************************************)
(* The fields parameter of fetch-stories is a string.  It is kept as the   *)
(* sequence of its units: the separators ",", "." and " " and the names    *)
(* between them, a name being one unit.                                    *)
(***************************************************************************)
RECURSIVE TrimStart(_)
TrimStart(s) == IF s # << >> /\ Head(s) = " " THEN TrimStart(Tail(s)) ELSE s

RECURSIVE TrimEnd(_)
TrimEnd(s) ==
    IF s # << >> /\ s[Len(s)] = " " THEN TrimEnd(SubSeq(s, 1, Len(s) - 1)) ELSE s

\* String.prototype.trim
trim(s) == TrimEnd(TrimStart(s))

RECURSIVE split(_, _)
\* String.prototype.split(sep): the pieces between the separators, empty
\* pieces included; a string without separator is its only piece
split(s, sep) ==
    IF \A i \in 1..Len(s) : s[i] # sep THEN << s >>
    ELSE LET k == CHOOSE i \in 1..Len(s) :
                     s[i] = sep /\ \A j \in 1..(i - 1) : s[j] # sep
         IN  << SubSeq(s, 1, k - 1) >> \o split(SubSeq(s, k + 1, Len(s)), sep)

\* the property name a path segment spells: a segment of one unit is that
\* name; a segment of several units (a name with blanks around it) is the
\* name of no member of the structures considered here
SegName(piece) ==
    IF piece = << >> THEN ""
    ELSE IF Len(piece) = 1 THEN piece[1]
    ELSE "(other)"

\* path.split('.')
PathParts(path) ==
    LET pieces == split(path, ".")
    IN  [i \in 1..Len(pieces) |-> SegName(pieces[i])]

\* params.fields.split(',').map(p => p.trim()).filter(p => p)
requestedPaths(fields) ==
    LET pieces  == split(fields, ",")
        trimmed == [i \in 1..Len(pieces) |-> trim(pieces[i])]
    IN  SelectSeq(trimmed, LAMBDA p : p # << >>)

PREDEFINED_SUMMARY_FIELDS ==
    << << "id" >>, << "name" >>, << "slug" >>, << "uuid" >>,
       << "content", ".", "component" >>, << "published_at" >>,
       << "updated_at" >>, << "created_at" >>, << "parent_id" >>,
       << "full_slug" >> >>

\* getValueByPath(obj, path) for a path given as a string
GetPath(h, obj, path) ==
    IF path = << >> THEN Undefined ELSE getValueByPath(h, obj, PathParts(path))

RECURSIVE CopyPaths(_, _, _, _, _)
\* for (const path of paths) { value = getValueByPath(story, path);
\*   if (value !== undefined) setByPath(newStory, path, value) }
\* from the i-th path on; yields the heap
CopyPaths(h, story, newStory, paths, i) ==
    IF i > Len(paths) THEN h
    ELSE LET value == GetPath(h, story, paths[i])
         IN  IF value = Undefined
             THEN CopyPaths(h, story, newStory, paths, i + 1)
             ELSE CopyPaths(setByPath(h, newStory, PathParts(paths[i]), value),
                            story, newStory, paths, i + 1)

RECURSIVE ProjectAll(_, _, _, _)
\* stories.map(story => { const newStory = {}; ...; return newStory })
\* from the i-th story on; yields the heap and the new list
ProjectAll(h, stories, paths, i) ==
    IF i > Len(stories) THEN [heap |-> h, stories |-> << >>]
    ELSE LET newStory == Ref(Len(h) + 1)
             h1   == CopyPaths(Append(h, EmptyObject), stories[i], newStory, paths, 1)
             rest == ProjectAll(h1, stories, paths, i + 1)
         IN  [heap |-> rest.heap, stories |-> << newStory >> \o rest.stories]

\* !params.fields || params.fields.trim() === ""
FieldsBlank(fields) == Falsy(fields) \/ trim(fields.s) = << >>

\* the summary is applied whenever summary_mode is set
SummaryWhenAsked(params) == ~Falsy(params.summary_mode)

\* params.summary_mode && (!params.fields || params.fields.trim() === "")
UseSummary(params) == ~Falsy(params.summary_mode) /\ FieldsBlank(params.fields)

\* the summary_mode / fields stage
ProjectStage(h, stories, params) ==
    IF UseSummary(params)
    THEN ProjectAll(h, stories, PREDEFINED_SUMMARY_FIELDS, 1)
    ELSE IF ~FieldsBlank(params.fields) /\ requestedPaths(params.fields.s) # << >>
         THEN ProjectAll(h, stories, requestedPaths(params.fields.s), 1)
         ELSE [heap |-> h, stories |-> stories]

(***************************************************************************)
(* String(value), as a sequence of characters, and the deep_filter stage   *)
(* of fetch-stories.  deep_filter is kept as the list of its entries, in   *)
(* the order of Object.entries.                                            *)
(***************************************************************************)
DigitChars == << "0", "1", "2", "3", "4", "5", "6", "7", "8", "9" >>

RECURSIVE NumberToString(_)
\* String(n) for a natural number
NumberToString(n) ==
    IF n < 10 THEN << DigitChars[n + 1] >>
    ELSE NumberToString(n \div 10) \o << DigitChars[(n % 10) + 1] >>

RECURSIVE String(_, _)
RECURSIVE Join(_, _, _)
\* Array.prototype.join(","), from the i-th item on: null and undefined items
\* give the empty string
Join(h, vals, i) ==
    IF i > Len(vals) THEN << >>
    ELSE (IF vals[i].t \in {"null", "undefined"} THEN << >> ELSE String(h, vals[i]))
         \o (IF i < Len(vals) THEN << "," >> ELSE << >>)
         \o Join(h, vals, i + 1)

\* String(value)
String(h, value) ==
    CASE value.t = "undefined" -> << "u", "n", "d", "e", "f", "i", "n", "e", "d" >>
      [] value.t = "null"      -> << "n", "u", "l", "l" >>
      [] value.t = "boolean"   -> IF value.b THEN << "t", "r", "u", "e" >>
                                  ELSE << "f", "a", "l", "s", "e" >>
      [] value.t = "number"    -> NumberToString(value.n)
      [] value.t = "string"    -> value.s
      [] value.t = "ref"       ->
            IF h[value.a].kind = "array" THEN Join(h, h[value.a].vals, 1)
            ELSE << "[", "o", "b", "j", "e", "c", "t", " ",
                    "O", "b", "j", "e", "c", "t", "]" >>

\* the path is put under content whatever it starts with
PrefixAlways(path) == << "content", "." >> \o path

\* path.startsWith('content.') ? path : `content.${path}`
actualPath(path) ==
    IF Len(path) >= 2 /\ path[1] = "content" /\ path[2] = "."
    THEN path
    ELSE << "content", "." >> \o path

\* Object.entries(params.deep_filter).every(([path, expectedValue]) =>
\*    String(getValueByPath(story, actualPath)) === expectedValue)
MatchesFilter(h, story, entries) ==
    \A i \in 1..Len(entries) :
       String(h, GetPath(h, story, actualPath(entries[i].path))) = entries[i].expected

\* the deep_filter stage
DeepFilterStage(h, stories, params) ==
    IF ~Falsy(params.deep_filter) /\ Len(params.deep_filter.entries) > 0
    THEN SelectSeq(stories, LAMBDA story : MatchesFilter(h, story, params.deep_filter.entries))
    ELSE stories

(***************************************************************************)
(* Component schemas.  The answer to GET /components is kept as the list   *)
(* of its components, each with its name and its schema (a value), and     *)
(* the fact whether data.components is an array at all.                    *)
(***************************************************************************)
\* data.components.find(comp => comp.name === componentName), as an index;
\* 0 when there is none
FindComponent(components, componentName) ==
    IF \E i \in 1..Len(components) : components[i].name = componentName
    THEN CHOOSE i \in 1..Len(components) :
            /\ components[i].name = componentName
            /\ \A j \in 1..(i - 1) : components[j].name # componentName
    ELSE 0

\* the schema of the first component listed, whatever its name
FirstComponentSchema(data, componentName) ==
    IF data.isArray /\ data.components # << >> /\ ~Falsy(data.components[1].schema)
    THEN data.components[1].schema
    ELSE Null

\* getComponentSchemaByName, given the answer of the service
getComponentSchemaByName(data, componentName) ==
    IF data.isArray /\ FindComponent(data.components, componentName) # 0
    THEN LET foundComponent == data.components[FindComponent(data.components, componentName)]
         IN  IF Falsy(foundComponent.schema) THEN Null ELSE foundComponent.schema
    ELSE Null

\* fieldDef.required
RequiredFlag(h, fieldDef) ==
    IF fieldDef.t = "ref" THEN PropRead(h[fieldDef.a], "required") ELSE Undefined

\* every schema field the content lacks, required or not
AllAbsentFields(h, schemaFields, content) ==
    SelectSeq(schemaFields.keys, LAMBDA fieldName : PropRead(content, fieldName) = Undefined)

\* the names pushed to missingFields by the loop over schemaFields
missingFields(h, schemaFields, content) ==
    SelectSeq(schemaFields.keys,
              LAMBDA fieldName :
                 /\ ~Falsy(RequiredFlag(h, OwnValue(schemaFields, fieldName)))
                 /\ PropRead(content, fieldName) = Undefined)

\* the names pushed to extraneousFields by the loop over the content
extraneousFields(schemaFields, content) ==
    SelectSeq(content.keys,
              LAMBDA contentFieldName : ~HasOwnProperty(schemaFields, contentFieldName))

ValidateTool == "validate-story-content"

MissingMessage(toolName, fieldName) ==
    IF toolName = ValidateTool
    THEN << "Field '", fieldName, "' is required but missing." >>
    ELSE << "Field '", fieldName, "' is required." >>

ExtraneousMessage(toolName, fieldName) ==
    IF toolName = ValidateTool
    THEN << "Field '", fieldName,
            "' is present in content but not defined in component schema." >>
    ELSE << "Field '", fieldName, "' not in schema." >>

\* the errors array: the missing fields first, the extraneous fields after
Diagnostics(toolName, missing, extraneous) ==
    [i \in 1..Len(missing) |->
        [field |-> missing[i], type |-> "missing_required",
         message |-> MissingMessage(toolName, missing[i])]]
    \o
    [i \in 1..Len(extraneous) |->
        [field |-> extraneous[i], type |-> "extraneous_field",
         message |-> ExtraneousMessage(toolName, extraneous[i])]]

\* the two validation loops and the verdict
validate(toolName, h, schemaFields, content) ==
    LET missing    == missingFields(h, schemaFields, content)
        extraneous == extraneousFields(schemaFields, content)
        errors     == Diagnostics(toolName, missing, extraneous)
    IN  [isValid |-> Len(errors) = 0, errors |-> errors,
         missingFields |-> missing, extraneousFields |-> extraneous]

\* a property name or a word of the program as a string value, one unit long
NameStr(name) == Str(<< name >>)

\* the validation result of fetch-stories as containers appended to the heap:
\* the result object, its three arrays, one object per diagnostic
AllocValidation(h, v) ==
    LET n == Len(h)
        nodes ==
          << [kind |-> "object",
              keys |-> << "isValid", "errors", "missingFields", "extraneousFields" >>,
              vals |-> << Bool(v.isValid), Ref(n + 2), Ref(n + 3), Ref(n + 4) >>,
              named |-> << >>],
             [EmptyArray EXCEPT !.vals = [i \in 1..Len(v.errors) |-> Ref(n + 4 + i)]],
             [EmptyArray EXCEPT !.vals = [i \in 1..Len(v.missingFields) |->
                                             NameStr(v.missingFields[i])]],
             [EmptyArray EXCEPT !.vals = [i \in 1..Len(v.extraneousFields) |->
                                             NameStr(v.extraneousFields[i])]] >>
          \o
          [i \in 1..Len(v.errors) |->
              [kind |-> "object", keys |-> << "field", "type", "message" >>,
               vals |-> << NameStr(v.errors[i].field), NameStr(v.errors[i].type),
                           Str(v.errors[i].message) >>,
               named |-> << >>]]
    IN  h \o nodes

\* story.content?.component
StoryComponent(h, story) ==
    LET content == PropRead(h[story.a], "content")
    IN  IF content.t = "ref" THEN PropRead(h[content.a], "component") ELSE Undefined

RECURSIVE AnnotateAll(_, _, _, _, _)
\* stories.map(story => story.content?.component === name
\*                       ? { ...story, validation } : story)
\* from the i-th story on; yields the heap and the new list
AnnotateAll(h, stories, schemaFields, componentNameToValidate, i) ==
    IF i > Len(stories) THEN [heap |-> h, stories |-> << >>]
    ELSE IF StoryComponent(h, stories[i]) = componentNameToValidate
         THEN LET content == h[PropRead(h[stories[i].a], "content").a]
                  v       == validate("fetch-stories", h, h[schemaFields.a], content)
                  h1      == AllocValidation(h, v)
                  copy    == PropWrite(h[stories[i].a], "validation", Ref(Len(h) + 1))
                  h2      == Append(h1, copy)
                  rest    == AnnotateAll(h2, stories, schemaFields,
                                         componentNameToValidate, i + 1)
              IN  [heap |-> rest.heap, stories |-> << Ref(Len(h2)) >> \o rest.stories]
         ELSE LET rest == AnnotateAll(h, stories, schemaFields,
                                      componentNameToValidate, i + 1)
              IN  [heap |-> rest.heap, stories |-> << stories[i] >> \o rest.stories]

\* the validate_schema stage, given the schema found (null when none); yields
\* the heap, the list and what the stage adds to the response metadata
ValidateStage(h, stories, params, componentSchema) ==
    IF Falsy(params.validate_schema)
    THEN [heap |-> h, stories |-> stories, name |-> Undefined, error |-> FALSE]
    ELSE IF Falsy(componentSchema)
         THEN [heap |-> h, stories |-> stories, name |-> params.validate_schema,
               error |-> TRUE]
         ELSE LET r == AnnotateAll(h, stories, componentSchema,
                                   params.validate_schema, 1)
              IN  [heap |-> r.heap, stories |-> r.stories,
                   name |-> params.validate_schema, error |-> FALSE]

(***************************************************************************)
(* The content trees the matchers are applied to are built one field or    *)
(* item at a time, as a parser or a caller builds them: NumNodes           *)
(* containers holding at most MaxEntries fields and items in all, each     *)
(* container at most MaxWidth wide.  An entry may refer to any container,  *)
(* so shared and cyclic structures are among the trees built.              *)
(***************************************************************************)
Keys == {"component", "body"}

EntryValues ==
    {Null, Num(1), Str(<< "h" >>), Str(<< "H", "x" >>)} \cup {Ref(a) : a \in Addr}

RootScalars ==
    {Null, Undefined, Num(0), Num(1), Bool(TRUE), Bool(FALSE),
     Str(<< >>), Str(<< "h" >>)}

Names   == {<< "h" >>, << "H", "x" >>}              \* component names asked for
Queries == {<< "h" >>, << "X" >>, << "x", "h" >>}   \* search queries asked for

EmptyHeaps ==
    {[a \in Addr |-> IF a \in objs THEN EmptyObject ELSE EmptyArray] : objs \in SUBSET Addr}

\* the containers a value refers to directly
RefsOf(h, S) ==
    {h[a].vals[i].a : <<a, i>> \in {e \in S \X (1..MaxWidth + 1) :
                                       /\ e[2] <= Len(h[e[1]].vals)
                                       /\ h[e[1]].vals[e[2]].t = "ref"}}

\* the containers reachable from the containers S
RECURSIVE ReachFrom(_, _)
ReachFrom(h, S) ==
    LET next == S \cup RefsOf(h, S)
    IN  IF next = S THEN S ELSE ReachFrom(h, next)

Reach(h, v) == IF v.t = "ref" THEN ReachFrom(h, {v.a}) ELSE {}

RECURSIVE SumLen(_, _)
SumLen(h, S) ==
    IF S = {} THEN 0
    ELSE LET a == CHOOSE x \in S : TRUE
         IN  Len(h[a].vals) + SumLen(h, S \ {a})

TotalEntries(h) == SumLen(h, Addr)

NoCall == [fn |-> "none", arg |-> << >>, out |-> "none", visited |-> {}]

(***************************************************************************)
(* Values of the variables a run does not use.                             *)
(***************************************************************************)
NoResult == [kind |-> "none"]

TreeIdle ==
    /\ heap = [a \in Addr |-> EmptyObject]
    /\ root = Null
    /\ call = NoCall

UsageIdle ==
    /\ version = "none"
    /\ currentPage = 0
    /\ hasMore = FALSE
    /\ pagesFetched = 0
    /\ totalStoriesFetched = 0
    /\ limitReached = FALSE
    /\ allStoriesMap = << >>

Versions == {"published", "draft"}

\* a response, as the history keeps it: its version and page, the number of
\* records on it, the total it reports, and the number of records received for
\* its version so far
Resp(kind, v, page, len, total, sofar) ==
    [kind |-> kind, version |-> v, page |-> page, len |-> len, total |-> total,
     fetched |-> sofar]

NoResp == Resp("none", "none", 0, 0, 0, 0)

\* the number of records received for version v before the next response
FetchedSoFar(last, v) == IF last.version = v THEN last.fetched ELSE 0

FetchIdle ==
    /\ content_status = "none"
    /\ pending = {}
    /\ settled = [v \in Versions |-> [kind |-> "none"]]
    /\ arrival = << >>

HistIdle ==
    /\ reqLog = << >>
    /\ answered = [v \in Versions |-> 0]
    /\ lastResp = NoResp
    /\ received = [v \in Versions |-> {}]
    /\ failedPage = [v \in Versions |-> 0]
    /\ seenOrder = << >>

(***************************************************************************)
(* The matchers applied to a content tree.                                 *)
(***************************************************************************)
InitTree ==
    /\ tool = "matcher"
    /\ pc = "input"
    /\ \/ root = Ref(1) /\ heap \in EmptyHeaps
       \/ root \in RootScalars /\ heap = [a \in Addr |-> EmptyObject]
    /\ call = NoCall
    /\ result = NoResult
    /\ UsageIdle /\ FetchIdle /\ HistIdle

\* obj[key] = value on a container of the tree under construction
SetField ==
    /\ tool = "matcher" /\ pc = "input"
    /\ TotalEntries(heap) < MaxEntries
    /\ \E a \in Reach(heap, root), key \in Keys, value \in EntryValues :
         /\ heap[a].kind = "object"
         /\ Len(heap[a].vals) < MaxWidth
         /\ \A i \in 1..Len(heap[a].keys) : heap[a].keys[i] # key
         /\ heap' = [heap EXCEPT ![a] = [kind |-> "object",
                                         keys |-> Append(heap[a].keys, key),
                                         vals |-> Append(heap[a].vals, value),
                                         named |-> << >>]]
    /\ UNCHANGED << tool, pc, root, call, result, usageVars, fetchVars, histVars >>

\* arr.push(value) on a container of the tree under construction
PushItem ==
    /\ tool = "matcher" /\ pc = "input"
    /\ TotalEntries(heap) < MaxEntries
    /\ \E a \in Reach(heap, root), value \in EntryValues :
         /\ heap[a].kind = "array"
         /\ Len(heap[a].vals) < MaxWidth
         /\ heap' = [heap EXCEPT ![a] = [kind |-> "array", keys |-> << >>,
                                         vals |-> Append(heap[a].vals, value),
                                         named |-> << >>]]
    /\ UNCHANGED << tool, pc, root, call, result, usageVars, fetchVars, histVars >>

\* findComponentInValue(story.content), component_name taken from the handler's argument
CallFind ==
    /\ tool = "matcher" /\ pc = "input"
    /\ \E name \in Names :
         call' = [fn |-> "findComponentInValue", arg |-> name,
                  out |-> findComponentInValue(heap, root, name, 1), visited |-> {}]
    /\ pc' = "done"
    /\ UNCHANGED << tool, heap, root, result, usageVars, fetchVars, histVars >>

\* recursiveDeepSearch(value, new Set()), lowerCaseQuery = query.toLowerCase()
CallDeep ==
    /\ tool = "matcher" /\ pc = "input"
    /\ \E query \in Queries :
         LET res == recursiveDeepSearch(heap, root, {}, toLowerCase(query), 1)
         IN  call' = [fn |-> "recursiveDeepSearch", arg |-> query,
                      out |-> res.r, visited |-> res.visited]
    /\ pc' = "done"
    /\ UNCHANGED << tool, heap, root, result, usageVars, fetchVars, histVars >>

NextTree == SetField \/ PushItem \/ CallFind \/ CallDeep

SpecTree == InitTree /\ [][NextTree]_vars

(***************************************************************************)
(* getValueByPath and setByPath applied to a structure.  The structures    *)
(* are the containers of PathHeap and some scalars; setByPath is followed  *)
(* by getValueByPath with the same path, on the structure as the call left *)
(* it.                                                                     *)
(***************************************************************************)
PathHeap ==
    << [kind |-> "object", keys |-> << "0", "component", "body" >>,
        vals |-> << Num(1), Str(<< "h" >>), Ref(2) >>, named |-> << >>],
       [kind |-> "array", keys |-> << >>, vals |-> << Ref(3), Null >>, named |-> << >>],
       [kind |-> "object", keys |-> << "component" >>,
        vals |-> << Str(<< "H", "x" >>) >>, named |-> << >>],
       EmptyObject,
       EmptyArray >>

PathRoots ==
    {Ref(a) : a \in DOMAIN PathHeap} \cup {Null, Undefined, Num(1), Str(<< "h" >>)}

Segs == {"component", "body", "0", "1", "01", "-1", "toString"}

Paths ==
    {<< s >> : s \in Segs} \cup (Segs \X Segs) \cup (Segs \X Segs \X Segs)

PathValues == {Null, Num(1), Str(<< "h" >>), Ref(3)}

InitPath ==
    /\ tool = "path"
    /\ pc = "input"
    /\ heap = PathHeap
    /\ root \in PathRoots
    /\ call = NoCall
    /\ result = NoResult
    /\ UsageIdle /\ FetchIdle /\ HistIdle

\* getValueByPath(obj, path)
CallGet ==
    /\ tool = "path" /\ pc = "input"
    /\ \E path \in Paths :
         call' = [fn |-> "getValueByPath", arg |-> path,
                  out |-> getValueByPath(heap, root, path), visited |-> {}]
    /\ pc' = "done"
    /\ UNCHANGED << tool, heap, root, result, usageVars, fetchVars, histVars >>

\* setByPath(obj, path, value); getValueByPath(obj, path)
CallSet ==
    /\ tool = "path" /\ pc = "input"
    /\ root.t = "ref"
    /\ \E path \in Paths, value \in PathValues :
         LET h1 == setByPath(heap, root, path, value)
         IN  /\ heap' = h1
             /\ call' = [fn |-> "setByPath", arg |-> path, value |-> value,
                          out |-> getValueByPath(h1, root, path), visited |-> {}]
    /\ pc' = "done"
    /\ UNCHANGED << tool, root, result, usageVars, fetchVars, histVars >>

NextPath == CallGet \/ CallSet

SpecPath == InitPath /\ [][NextPath]_vars

(***************************************************************************)
(* The stages of fetch-stories that follow the merge (validate_schema,     *)
(* summary_mode / fields), applied to a merged list of story records, and  *)
(* the tool validate-story-content.  The records, the content given to the *)
(* validator and the schema of the component listing are containers of     *)
(* StageHeap; one call picks the schema and the content out of Schemas and *)
(* Contents.                                                               *)
(***************************************************************************)
MaxComponents == 1

\* three story records and their content
StoryNodes ==
    << [kind |-> "object",
        keys |-> << "id", "name", "content", "published_at", "lang" >>,
        vals |-> << Num(1), Str(<< "h" >>), Ref(2), Null, Str(<< "h" >>) >>,
        named |-> << >>],
       [kind |-> "object", keys |-> << "component", "title", "body" >>,
        vals |-> << Str(<< "h" >>), Str(<< "h" >>), Ref(3) >>, named |-> << >>],
       [kind |-> "array", keys |-> << >>, vals |-> << Ref(4), Ref(5) >>, named |-> << >>],
       [kind |-> "object", keys |-> << "component" >>,
        vals |-> << Str(<< "H", "x" >>) >>, named |-> << >>],
       [kind |-> "object", keys |-> << "component", "extra" >>,
        vals |-> << Str(<< "H", "x" >>), Null >>, named |-> << >>],
       [kind |-> "object", keys |-> << "id", "slug", "content" >>,
        vals |-> << Num(2), Str(<< "h" >>), Ref(7) >>, named |-> << >>],
       [kind |-> "object", keys |-> << "component", "subtitle", "extra" >>,
        vals |-> << Str(<< "H", "x" >>), Null, Str(<< "h" >>) >>, named |-> << >>],
       [kind |-> "object", keys |-> << "id", "content" >>,
        vals |-> << Num(3), Null >>, named |-> << >>],
       [kind |-> "object", keys |-> << "id", "content" >>,
        vals |-> << Num(4), Ref(10) >>, named |-> << >>],
       [kind |-> "object", keys |-> << "component", "count", "flag", "draft" >>,
        vals |-> << Str(<< "h" >>), Num(10), Str(<< "1", "0" >>), Bool(FALSE) >>,
        named |-> << >>] >>

StoryA == Ref(1)
StoryB == Ref(6)
StoryC == Ref(8)
StoryD == Ref(9)

\* where the schema of the listing is, its descriptors {required: true},
\* {required: false} and {}, and the content given to the validator
SchemaAddr  == Len(StoryNodes) + 1
ReqTrue     == SchemaAddr + 1
ReqFalse    == SchemaAddr + 2
NoFlag      == SchemaAddr + 3
ContentAddr == SchemaAddr + 4

StageHeap ==
    StoryNodes \o
    << EmptyObject,
       [kind |-> "object", keys |-> << "required" >>, vals |-> << Bool(TRUE) >>,
        named |-> << >>],
       [kind |-> "object", keys |-> << "required" >>, vals |-> << Bool(FALSE) >>,
        named |-> << >>],
       EmptyObject,
       EmptyObject >>

\* an object with the fields of names to which f gives a value, in that order
ObjectOf(names, f) ==
    LET present == SelectSeq(names, LAMBDA k : f[k] # Undefined)
    IN  [kind |-> "object", keys |-> present,
         vals |-> [i \in 1..Len(present) |-> f[present[i]]], named |-> << >>]

\* schemas: each field is absent, required, or optional
Schemas ==
    {ObjectOf(<< "title", "subtitle" >>,
              [k \in {"title", "subtitle"} |-> IF k = "title" THEN t ELSE s]) :
       t \in {Undefined, Ref(ReqTrue), Ref(ReqFalse)},
       s \in {Undefined, Ref(ReqTrue), Ref(NoFlag)}}

\* contents given to validate-story-content
Contents ==
    {ObjectOf(<< "title", "extra", "subtitle" >>, f) :
       f \in [{"title", "extra", "subtitle"} -> {Undefined, Null, Str(<< "h" >>)}]}

ComponentNames == {Str(<< "h" >>), Str(<< "H", "x" >>)}

\* answers to GET /components: a failure, an answer without a components
\* array, or a list of at most MaxComponents components, each with the
\* schema or without one
ComponentLists ==
    UNION {[1..n -> [name : ComponentNames, schema : {Ref(SchemaAddr), Null}]] :
             n \in 0..MaxComponents}

ComponentsAnswers ==
    {[kind |-> "fail", isArray |-> FALSE, components |-> << >>],
     [kind |-> "ok", isArray |-> FALSE, components |-> << >>]}
    \cup {[kind |-> "ok", isArray |-> TRUE, components |-> l] : l \in ComponentLists}

\* no request was made
NoAnswer == [kind |-> "none", isArray |-> FALSE, components |-> << >>]

StoryLists ==
    {<< >>, << StoryA >>, << StoryC, StoryB, StoryA >>, << StoryD, StoryA >>}

FieldsInputs ==
    {Undefined, Str(<< >>), Str(<< " " >>), Str(<< "," >>), Str(<< " ", ",", " " >>),
     Str(<< "id" >>),
     Str(<< " ", "id", " ", ",", " ", "name", " " >>),
     Str(<< "content", ".", "component" >>),
     Str(<< "content", ".", "body", ".", "1", ".", "component" >>),
     Str(<< "content", ".", "body", ".", "01", ".", "component" >>),
     Str(<< "content", ",", "content", ".", "body", ".", "01", ".", "component" >>),
     Str(<< "content", ".", "body", ".", "0", ",",
            "content", ".", "body", ".", "1", ".", "extra" >>),
     Str(<< "content", ".", "body", ",",
            "content", ".", "body", ".", "0", ".", "component" >>),
     Str(<< "published_at", ",", "lang" >>),
     Str(<< "validation", ".", "isValid", ",", "id" >>),
     Str(<< "missing", ".", "x", ",", "id", ".", "x", ",", ",",
            "content", ".", ".", "x" >>),
     Str(<< "content", ".", "toString" >>)}

\* a deep_filter object with these entries
Filter(entries) == [t |-> "object", entries |-> entries]

Entry(path, expected) == [path |-> path, expected |-> expected]

TextObject ==
    << "[", "o", "b", "j", "e", "c", "t", " ", "O", "b", "j", "e", "c", "t", "]" >>

DeepFilters ==
    {Filter(<< >>),
     Filter(<< Entry(<< "title" >>, << "h" >>) >>),
     Filter(<< Entry(<< "content", ".", "title" >>, << "h" >>) >>),
     Filter(<< Entry(<< "component" >>, << "H" >>) >>),
     Filter(<< Entry(<< "content" >>, << "u", "n", "d", "e", "f", "i", "n", "e", "d" >>) >>),
     Filter(<< Entry(<< "extra" >>, << "u", "n", "d", "e", "f", "i", "n", "e", "d" >>) >>),
     Filter(<< Entry(<< "body", ".", "1", ".", "extra" >>, << "n", "u", "l", "l" >>) >>),
     Filter(<< Entry(<< "body", ".", "0" >>, TextObject) >>),
     Filter(<< Entry(<< "body" >>, TextObject \o << "," >> \o TextObject) >>),
     Filter(<< Entry(<< "count" >>, << "1", "0" >>) >>),
     Filter(<< Entry(<< "flag" >>, << "1", "0" >>),
               Entry(<< "draft" >>, << "f", "a", "l", "s", "e" >>) >>),
     Filter(<< Entry(<< "component" >>, << "h" >>),
               Entry(<< "title" >>, << "h" >>) >>)}

\* the parameters of a call: all combinations of validate_schema, fields and
\* summary_mode without deep_filter, and each deep_filter with some of them
StageParams ==
    [deep_filter     : {Undefined},
     validate_schema : {Undefined} \cup ComponentNames,
     fields          : FieldsInputs,
     summary_mode    : {Undefined, Bool(TRUE), Bool(FALSE)}]
    \cup
    [deep_filter     : DeepFilters,
     validate_schema : {Undefined, Str(<< "h" >>)},
     fields          : {Undefined, Str(<< "id" >>)},
     summary_mode    : {Undefined}]

InitStages ==
    /\ tool = "stages"
    /\ pc = "input"
    /\ heap = StageHeap
    /\ root = Null
    /\ call = NoCall
    /\ result = NoResult
    /\ UsageIdle /\ FetchIdle /\ HistIdle

\* a request as the log keeps it
Request(method, path) == [method |-> method, path |-> path]

GetComponents == Request("GET", "/components")
PostStory     == Request("POST", "/stories")
PostPublish   == Request("POST", "/stories/{id}/publish")
GetStory      == Request("GET", "/stories/{id}")

\* the response of fetch-stories after validate_schema: summary_mode or
\* fields, then the payload
StagesResponse(h, validated, params) ==
    LET projected == ProjectStage(h, validated.stories, params)
    IN  [heap |-> projected.heap,
         result |-> [kind |-> "ok", stories |-> projected.stories,
                     validated_schema_component_name |-> validated.name,
                     validation_schema_error |-> validated.error,
                     stories_count_current_response |-> Len(projected.stories)]]

\* fetch-stories from the merged list on: deep_filter, then either the
\* request for the components (validate_schema given), on whose answer the
\* handler waits, or summary_mode / fields and the response at once
FetchStages ==
    /\ tool = "stages" /\ pc = "input"
    /\ \E stories \in StoryLists, params \in StageParams :
         LET asked     == ~Falsy(params.validate_schema)
             filtered  == DeepFilterStage(heap, stories, params)
             validated == ValidateStage(heap, filtered, params,
                              getComponentSchemaByName(NoAnswer, params.validate_schema))
             response  == StagesResponse(validated.heap, validated, params)
         IN  /\ call' = [fn |-> "fetch-stories", arg |-> params, stories |-> stories,
                         filtered |-> filtered, data |-> NoAnswer,
                         out |-> "none", visited |-> {}]
             /\ IF asked
                THEN /\ reqLog' = Append(reqLog, GetComponents)
                     /\ pc' = "schema"
                     /\ UNCHANGED << heap, result >>
                ELSE /\ heap' = response.heap
                     /\ result' = response.result
                     /\ pc' = "done"
                     /\ UNCHANGED reqLog
    /\ UNCHANGED << tool, root, usageVars, fetchVars,
                    answered, lastResp, received, failedPage, seenOrder >>

\* fetch-stories: the answer to GET /components arrives: validate_schema on
\* the filtered list, then summary_mode or fields, then the response; a
\* failed request ends in the catch block
FetchStagesAnswer ==
    /\ tool = "stages" /\ pc = "schema" /\ call.fn = "fetch-stories"
    /\ \E schema \in Schemas, answer \in ComponentsAnswers :
         LET params == call.arg
             h0     == [heap EXCEPT ![SchemaAddr] = schema]
             componentSchema ==
                 getComponentSchemaByName(answer, params.validate_schema)
             validated == ValidateStage(h0, call.filtered, params, componentSchema)
             response  == StagesResponse(validated.heap, validated, params)
         IN  /\ call' = [call EXCEPT !.data = answer]
             /\ IF answer.kind = "fail"
                THEN /\ heap' = h0
                     /\ result' = [kind |-> "error"]
                ELSE /\ heap' = response.heap
                     /\ result' = response.result
    /\ pc' = "done"
    /\ UNCHANGED << tool, root, usageVars, fetchVars, histVars >>

\* answers to GET /stories/{story_id}: a failure, an answer without story
\* content, or the story with its content
StoryAnswers == {"fail", "nocontent", "content"}

\* the payload of a finished validation
ValidationResponse(h, schemaFields, content, component_name, story_id) ==
    [kind |-> "ok",
     validation |-> validate(ValidateTool, h, schemaFields, content),
     validatedComponentName |-> component_name,
     storyIdProcessed |->
         IF Falsy(story_id)
         THEN Str(<< "N/A (content provided directly)" >>)
         ELSE story_id]

\* validate-story-content up to its first await: the request for the
\* components.  The content given as story_content is put at ContentAddr.
ValidateStoryContent ==
    /\ tool = "stages" /\ pc = "input"
    /\ \E component_name \in ComponentNames, content \in Contents,
          story_content \in {Undefined, Ref(ContentAddr)},
          story_id \in {Undefined, Str(<< "1" >>)} :
         \* without story_content no content is given
         /\ ~Falsy(story_content) \/ content = EmptyObject
         /\ heap' = [heap EXCEPT ![ContentAddr] = content]
         /\ call' = [fn |-> ValidateTool, component_name |-> component_name,
                     story_content |-> story_content, story_id |-> story_id,
                     data |-> NoAnswer, storyData |-> "none",
                     out |-> "none", visited |-> {}]
    /\ reqLog' = Append(reqLog, GetComponents)
    /\ pc' = "schema"
    /\ UNCHANGED << tool, root, usageVars, fetchVars, result,
                    answered, lastResp, received, failedPage, seenOrder >>

\* validate-story-content: the answer to GET /components arrives: the schema
\* lookup, then the validation of the given content, or the request for the
\* story, or the refusal of a call that gave neither
ValidateSchemaAnswer ==
    /\ tool = "stages" /\ pc = "schema" /\ call.fn = ValidateTool
    /\ \E schema \in Schemas, answer \in ComponentsAnswers :
         LET h0 == [heap EXCEPT ![SchemaAddr] = schema]
             componentSchema == getComponentSchemaByName(answer, call.component_name)
         IN  /\ heap' = h0
             /\ call' = [call EXCEPT !.data = answer]
             /\ IF answer.kind = "fail"
                THEN /\ result' = [kind |-> "error", error |-> "exception"]
                     /\ pc' = "done"
                     /\ UNCHANGED reqLog
                ELSE IF Falsy(componentSchema)
                THEN /\ result' = [kind |-> "error", error |-> "schema_not_found"]
                     /\ pc' = "done"
                     /\ UNCHANGED reqLog
                ELSE IF ~Falsy(call.story_content)
                THEN /\ result' = ValidationResponse(h0, h0[componentSchema.a],
                                      h0[call.story_content.a],
                                      call.component_name, call.story_id)
                     /\ pc' = "done"
                     /\ UNCHANGED reqLog
                ELSE IF ~Falsy(call.story_id)
                THEN /\ reqLog' = Append(reqLog, GetStory)
                     /\ pc' = "story"
                     /\ UNCHANGED result
                ELSE /\ result' = [kind |-> "error", error |-> "no_input"]
                     /\ pc' = "done"
                     /\ UNCHANGED reqLog
    /\ UNCHANGED << tool, root, usageVars, fetchVars,
                    answered, lastResp, received, failedPage, seenOrder >>

\* validate-story-content: the answer to GET /stories/{story_id} arrives:
\* the content of the story, put at ContentAddr, is validated
ValidateStoryAnswer ==
    /\ tool = "stages" /\ pc = "story" /\ call.fn = ValidateTool
    /\ \E storyAnswer \in StoryAnswers, content \in Contents :
         LET h0 == [heap EXCEPT ![ContentAddr] = content]
             componentSchema == getComponentSchemaByName(call.data, call.component_name)
         IN  \* only an answer with content carries one
             /\ storyAnswer = "content" \/ content = EmptyObject
             /\ heap' = h0
             /\ call' = [call EXCEPT !.storyData = storyAnswer]
             /\ result' =
                  IF storyAnswer = "fail"
                  THEN [kind |-> "error", error |-> "exception"]
                  ELSE IF storyAnswer = "nocontent"
                  THEN [kind |-> "error", error |-> "no_content"]
                  ELSE ValidationResponse(h0, h0[componentSchema.a], content,
                                          call.component_name, call.story_id)
    /\ pc' = "done"
    /\ UNCHANGED << tool, root, usageVars, fetchVars, histVars >>

NextStages ==
    \/ FetchStages \/ FetchStagesAnswer
    \/ ValidateStoryContent \/ ValidateSchemaAnswer \/ ValidateStoryAnswer

SpecStages == InitStages /\ [][NextStages]_vars

(***************************************************************************)
(* The remote service.  A story record carries its id, the version of the  *)
(* listing it came from, and its content tree (a value of StoryHeap).  A   *)
(* page request is answered with any page of at most n records and any     *)
(* total, or fails (non-success status: handleApiResponse throws).         *)
(***************************************************************************)
Ids == 1..NumIds

StoryHeap ==
    [a \in Addr |->
        CASE a = 1 -> [kind |-> "object", keys |-> << "component", "body" >>,
                       vals |-> << Str(<< "H", "x" >>), Ref(2) >>, named |-> << >>]
          [] a = 2 -> [kind |-> "array", keys |-> << >>, vals |-> << Ref(3) >>,
                       named |-> << >>]
          [] a = 3 -> [kind |-> "object", keys |-> << "component" >>,
                       vals |-> << Str(<< "h" >>) >>, named |-> << >>]
          [] OTHER -> EmptyObject]

ContentOf(id, v) ==
    CASE id = 1 /\ v = "published" -> Ref(3)
      [] id = 1 /\ v = "draft"     -> Ref(1)
      [] id = 2 /\ v = "published" -> Ref(1)
      [] id = 2 /\ v = "draft"     -> Ref(3)
      [] id = 3 /\ v = "draft"     -> Null
      [] OTHER                     -> Ref(3)

Story(id, v) == [id |-> id, version |-> v, content |-> ContentOf(id, v)]

Pages(v, n) == UNION {[1..k -> {Story(id, v) : id \in Ids}] : k \in 0..n}

\* the totals the remote may report
Totals == 0..NumIds

IdsOf(stories) == {stories[i].id : i \in 1..Len(stories)}

Range(seq) == {seq[i] : i \in 1..Len(seq)}

\* the first occurrences of the ids of a record list, in order
RECURSIVE FirstIds(_, _, _)
FirstIds(stories, i, seen) ==
    IF i > Len(stories) THEN << >>
    ELSE IF stories[i].id \in seen THEN FirstIds(stories, i + 1, seen)
    ELSE << stories[i].id >> \o FirstIds(stories, i + 1, seen \cup {stories[i].id})

(***************************************************************************)
(* Map<number, any>: the entries in insertion order, keyed by story id.    *)
(***************************************************************************)
MapHas(m, id) == \E i \in 1..Len(m) : m[i].id = id

\* a map whose set moves an existing key to the end
MapSetMoveToEnd(m, id, story) ==
    Append(SelectSeq(m, LAMBDA e : e.id # id), story)

\* Map.prototype.set: a new key is appended, an existing key keeps its position
MapSet(m, id, story) ==
    IF MapHas(m, id)
    THEN [i \in 1..Len(m) |-> IF m[i].id = id THEN story ELSE m[i]]
    ELSE Append(m, story)

\* Array.from(map.values())
MapValues(m) == m

(***************************************************************************)
(* get-component-usage                                                     *)
(***************************************************************************)
\* a merge in which the record that came first is kept
MergeKeepFirst(m, story, v) ==
    IF ~MapHas(m, story.id) THEN MapSet(m, story.id, story) ELSE m

\* the body of stories.forEach for one story
MergeStory(m, story, v) ==
    IF v = "draft" \/ ~MapHas(m, story.id) THEN MapSet(m, story.id, story) ELSE m

RECURSIVE MergePage(_, _, _, _)
MergePage(m, stories, i, v) ==
    IF i > Len(stories) THEN m
    ELSE MergePage(MergeStory(m, stories[i], v), stories, i + 1, v)

\* the test that ends the paging of a version after a successful page
HasMoreAfter(storiesFetched, totalAvailable, pageLen) ==
    ~(storiesFetched >= totalAvailable \/ pageLen < PER_PAGE)

\* a paging that leaves out every other page
SkipPage(page) == page + 2

\* currentPage++
NextPage(page) == page + 1

\* a catch block that keeps the loop going
RetryOnError == TRUE

\* hasMore as the catch block leaves it
HasMoreOnError == FALSE

\* a flag that tells of the loop just ended only
LimitOfThisLoop(limit, pages, more) == pages >= MAX_PAGES /\ more

\* limitReached after the loop of a version
LimitAfterLoop(limit, pages, more) ==
    IF pages >= MAX_PAGES /\ more THEN TRUE ELSE limit

\* the stories whose content holds the component, in map order
RECURSIVE UsedIn(_, _, _)
UsedIn(stories, i, component_name) ==
    IF i > Len(stories) THEN << >>
    ELSE IF /\ ~Falsy(stories[i].content)
            /\ findComponentInValue(StoryHeap, stories[i].content, component_name, 1) = "true"
         THEN << stories[i].id >> \o UsedIn(stories, i + 1, component_name)
         ELSE UsedIn(stories, i + 1, component_name)

InitUsage ==
    /\ tool = "get-component-usage"
    /\ pc = "loop"
    /\ version = "published"
    /\ currentPage = 1
    /\ hasMore = TRUE
    /\ pagesFetched = 0
    /\ totalStoriesFetched = 0
    /\ limitReached = FALSE
    /\ allStoriesMap = << >>
    /\ result = NoResult
    /\ TreeIdle /\ FetchIdle /\ HistIdle

\* while (hasMore && pagesFetched < MAX_PAGES): fetchStoriesPage(version, currentPage)
UsageRequestPage ==
    /\ tool = "get-component-usage" /\ pc = "loop"
    /\ hasMore /\ pagesFetched < MAX_PAGES
    /\ pc' = "await"
    /\ reqLog' = Append(reqLog, [version |-> version, page |-> currentPage])
    /\ UNCHANGED << tool, treeVars, usageVars, fetchVars, result,
                    answered, lastResp, received, failedPage, seenOrder >>

\* the awaited page arrives: the try block
UsagePageOk ==
    /\ tool = "get-component-usage" /\ pc = "await"
    /\ \E stories \in Pages(version, PER_PAGE), totalAvailable \in Totals :
         LET m    == MergePage(allStoriesMap, stories, 1, version)
             more == HasMoreAfter(Len(m), totalAvailable, Len(stories))
         IN  /\ allStoriesMap' = m
             /\ totalStoriesFetched' = Len(m)
             /\ pagesFetched' = pagesFetched + 1
             /\ hasMore' = more
             /\ currentPage' = IF more THEN NextPage(currentPage) ELSE currentPage
             /\ lastResp' = Resp("ok", version, currentPage, Len(stories), totalAvailable,
                                  FetchedSoFar(lastResp, version) + Len(stories))
             /\ received' = [received EXCEPT ![version] = @ \cup IdsOf(stories)]
             /\ seenOrder' = seenOrder \o FirstIds(stories, 1, Range(seenOrder))
    /\ answered' = [answered EXCEPT ![version] = @ + 1]
    /\ pc' = "loop"
    /\ UNCHANGED << tool, treeVars, version, limitReached, fetchVars, result,
                    reqLog, failedPage >>

\* the awaited page fails: the catch block
UsagePageFail ==
    /\ tool = "get-component-usage" /\ pc = "await"
    /\ hasMore' = HasMoreOnError
    /\ lastResp' = Resp("fail", version, currentPage, 0, 0,
                         FetchedSoFar(lastResp, version))
    /\ failedPage' = [failedPage EXCEPT ![version] = currentPage]
    /\ answered' = [answered EXCEPT ![version] = @ + 1]
    /\ pc' = "loop"
    /\ UNCHANGED << tool, treeVars, version, currentPage, pagesFetched,
                    totalStoriesFetched, limitReached, allStoriesMap, fetchVars,
                    result, reqLog, received, seenOrder >>

\* the while loop of a version ends; the for loop goes on to "draft" or ends
UsageEndVersion ==
    /\ tool = "get-component-usage" /\ pc = "loop"
    /\ ~(hasMore /\ pagesFetched < MAX_PAGES)
    /\ limitReached' = LimitAfterLoop(limitReached, pagesFetched, hasMore)
    /\ IF version = "published"
       THEN /\ version' = "draft"
            /\ currentPage' = 1
            /\ hasMore' = TRUE
            /\ pagesFetched' = 0
            /\ pc' = "loop"
       ELSE /\ pc' = "analyze"
            /\ UNCHANGED << version, currentPage, hasMore, pagesFetched >>
    /\ UNCHANGED << tool, treeVars, totalStoriesFetched, allStoriesMap, fetchVars,
                    result, histVars >>

\* the analysis of the merged stories and the returned payload
UsageReturn ==
    /\ tool = "get-component-usage" /\ pc = "analyze"
    /\ \E component_name \in Names :
         LET allStories      == MapValues(allStoriesMap)
             used_in_stories == UsedIn(allStories, 1, component_name)
         IN  result' = [kind |-> "ok",
                        component_name |-> component_name,
                        usage_count |-> Len(used_in_stories),
                        search_limit_reached |-> limitReached,
                        stories_analyzed_count |-> Len(allStories),
                        message_notes_limit |-> limitReached,
                        used_in_stories |-> used_in_stories]
    /\ pc' = "done"
    /\ UNCHANGED << tool, treeVars, usageVars, fetchVars, histVars >>

NextUsage ==
    UsageRequestPage \/ UsagePageOk \/ UsagePageFail \/ UsageEndVersion \/ UsageReturn

SpecUsage == InitUsage /\ [][NextUsage]_vars

(***************************************************************************)
(* fetch-stories: one request per version, both issued before either is    *)
(* awaited when content_status is "both".  The merge is the same code in   *)
(* fetch-stories-by-component and search-content.  The optional stages     *)
(* (deep_filter, validate_schema, summary_mode, fields) are those of a     *)
(* call that supplies none of these parameters.                            *)
(***************************************************************************)
\* a combinator that yields the values in the order they settled
PromiseAllByArrival(calls, values, arrivalOrder) ==
    [i \in 1..Len(calls) |-> values[arrivalOrder[i]]]

\* Promise.all: the settled values in the order of the calls
PromiseAll(calls, values, arrivalOrder) ==
    [i \in 1..Len(calls) |-> values[calls[i]]]

\* stories.forEach(story => storiesMap.set(story.id, story))
RECURSIVE SetAll(_, _, _)
SetAll(m, stories, i) ==
    IF i > Len(stories) THEN m
    ELSE SetAll(MapSet(m, stories[i].id, stories[i]), stories, i + 1)

\* a merge that fills the map from the draft page first
MergeDraftFirst(publishedStories, draftStories) ==
    MapValues(SetAll(SetAll(<< >>, draftStories, 1), publishedStories, 1))

\* storiesMap filled from the published page, then from the draft page
MergeVersions(publishedStories, draftStories) ==
    MapValues(SetAll(SetAll(<< >>, publishedStories, 1), draftStories, 1))

\* a total that takes the larger of the two versions' totals
LargerTotal(status, draftData, responses) ==
    IF status = "both"
    THEN IF responses["published"].total_from_api > draftData.total_from_api
         THEN responses["published"].total_from_api
         ELSE draftData.total_from_api
    ELSE responses[status].total_from_api

\* total_items_from_api: draftData.total_from_api, or singleVersionData.total_from_api
ReportedTotal(status, draftData, responses) ==
    IF status = "both"
    THEN draftData.total_from_api
    ELSE responses[status].total_from_api

InitFetch ==
    /\ tool = "fetch-stories"
    /\ pc = "start"
    /\ content_status \in {"both", "draft", "published"}
    /\ pending = {}
    /\ settled = [v \in Versions |-> [kind |-> "none"]]
    /\ arrival = << >>
    /\ result = NoResult
    /\ TreeIdle /\ UsageIdle /\ HistIdle

\* the handler calls fetchStoriesForVersion: "draft" then "published", or the one version
FetchStart ==
    /\ tool = "fetch-stories" /\ pc = "start"
    /\ LET calls == IF content_status = "both" THEN << "draft", "published" >>
                    ELSE << content_status >>
       IN  /\ pending' = {calls[i] : i \in 1..Len(calls)}
           /\ reqLog' = [i \in 1..Len(calls) |-> [version |-> calls[i], page |-> 1]]
    /\ pc' = "await"
    /\ UNCHANGED << tool, treeVars, usageVars, content_status, settled, arrival,
                    result, answered, lastResp, received, failedPage, seenOrder >>

\* the response to one of the requests arrives with a success status
FetchSettleOk ==
    /\ tool = "fetch-stories" /\ pc = "await"
    /\ \E v \in pending : \E stories \in Pages(v, MaxPageLen), total \in Totals :
         /\ settled' = [settled EXCEPT ![v] = [kind |-> "ok", stories_data |-> stories,
                                               total_from_api |-> total]]
         /\ pending' = pending \ {v}
         /\ arrival' = Append(arrival, v)
         /\ lastResp' = Resp("ok", v, 1, Len(stories), total, Len(stories))
         /\ received' = [received EXCEPT ![v] = @ \cup IdsOf(stories)]
         /\ answered' = [answered EXCEPT ![v] = @ + 1]
    /\ UNCHANGED << tool, pc, treeVars, usageVars, content_status, result, reqLog,
                    failedPage, seenOrder >>

\* the response to one of the requests is a failure: handleApiResponse throws
FetchSettleFail ==
    /\ tool = "fetch-stories" /\ pc = "await"
    /\ \E v \in pending :
         /\ settled' = [settled EXCEPT ![v] = [kind |-> "fail"]]
         /\ pending' = pending \ {v}
         /\ arrival' = Append(arrival, v)
         /\ lastResp' = Resp("fail", v, 1, 0, 0, 0)
         /\ failedPage' = [failedPage EXCEPT ![v] = 1]
         /\ answered' = [answered EXCEPT ![v] = @ + 1]
    /\ UNCHANGED << tool, pc, treeVars, usageVars, content_status, result, reqLog,
                    received, seenOrder >>

\* every request succeeded: merge, metadata, return
FetchReturn ==
    /\ tool = "fetch-stories" /\ pc = "await"
    /\ pending = {}
    /\ \A v \in Versions : settled[v].kind # "fail"
    /\ LET both    == PromiseAll(<< "draft", "published" >>, settled, arrival)
           draftData     == both[1]
           publishedData == both[2]
           stories == IF content_status = "both"
                      THEN MergeVersions(publishedData.stories_data,
                                         draftData.stories_data)
                      ELSE settled[content_status].stories_data
           total   == ReportedTotal(content_status, draftData, settled)
       IN  result' = [kind |-> "ok",
                      stories |-> stories,
                      total_items_from_api |-> total,
                      stories_count_current_response |-> Len(stories)]
    /\ pc' = "done"
    /\ UNCHANGED << tool, treeVars, usageVars, fetchVars, histVars >>

\* a request failed: the await throws into the handler's catch block
FetchCatch ==
    /\ tool = "fetch-stories" /\ pc = "await"
    /\ \E v \in Versions : settled[v].kind = "fail"
    /\ result' = [kind |-> "error"]
    /\ pc' = "done"
    /\ UNCHANGED << tool, treeVars, usageVars, fetchVars, histVars >>

NextFetch == FetchStart \/ FetchSettleOk \/ FetchSettleFail \/ FetchReturn \/ FetchCatch

SpecFetch == InitFetch /\ [][NextFetch]_vars

(***************************************************************************)
(* search-content and fetch-stories-by-component.  Each handler has its    *)
(* own fetch helper and merge (the same code as in fetch-stories), then    *)
(* filters the records.  The content trees of the records are the          *)
(* containers of QueryHeap.                                                *)
(***************************************************************************)
MaxQueryPage == 1    \* records on one page answered to these two tools

DEFAULT_PER_PAGE == 25
MAX_PER_PAGE     == 100

QueryTools == {"search-content", "fetch-stories-by-component"}

QueryHeap ==
    << [kind |-> "object", keys |-> << "component", "title", "body" >>,
        vals |-> << Str(<< "H", "x" >>), Str(<< "H", "x" >>), Ref(2) >>,
        named |-> << >>],
       [kind |-> "array", keys |-> << >>, vals |-> << Null, Ref(3) >>, named |-> << >>],
       [kind |-> "object", keys |-> << "component", "title" >>,
        vals |-> << Str(<< "h" >>), Str(<< "h" >>) >>, named |-> << >>],
       [kind |-> "object", keys |-> << "component", "body", "footer" >>,
        vals |-> << Str(<< "H", "x" >>), Ref(5), Ref(7) >>, named |-> << >>],
       [kind |-> "array", keys |-> << >>, vals |-> << Ref(6) >>, named |-> << >>],
       [kind |-> "object", keys |-> << "component", "columns" >>,
        vals |-> << Str(<< "H", "x" >>), Ref(7) >>, named |-> << >>],
       [kind |-> "array", keys |-> << >>, vals |-> << Ref(3) >>, named |-> << >>],
       [kind |-> "object", keys |-> << "component", "body" >>,
        vals |-> << Str(<< "H", "x" >>), Ref(3) >>, named |-> << >>] >>

\* the content of story id in the listing of version v
QueryContent(id, v) ==
    CASE id = 1 /\ v = "published" -> Ref(3)
      [] id = 1 /\ v = "draft"     -> Ref(1)
      [] id = 2 /\ v = "published" -> Ref(4)
      [] id = 2 /\ v = "draft"     -> Ref(8)
      [] id = 3 /\ v = "published" -> Null
      [] OTHER                     -> Ref(4)

QueryStory(id, v) == [id |-> id, version |-> v, content |-> QueryContent(id, v)]

QueryPages(v) == UNION {[1..k -> {QueryStory(id, v) : id \in Ids}] : k \in 0..MaxQueryPage}

\* the totals the remote may report to these tools
ApiTotals == {0, DEFAULT_PER_PAGE, DEFAULT_PER_PAGE + 1}

\* createPaginationParams(page = 1, per_page = 25)
createPaginationParams(page, per_page) ==
    LET p  == IF page = Undefined THEN 1 ELSE page.n
        pp == IF per_page = Undefined THEN DEFAULT_PER_PAGE ELSE per_page.n
    IN  [page |-> p, per_page |-> IF pp < MAX_PER_PAGE THEN pp ELSE MAX_PER_PAGE]

\* const per_page_for_calc = per_page || 25
per_page_for_calc(per_page) ==
    IF Falsy(per_page) THEN DEFAULT_PER_PAGE ELSE per_page.n

\* Math.ceil(total / perPage)
CeilDiv(total, perPage) == (total + perPage - 1) \div perPage

\* let apiContentTypeFilter: the single type of content_types, or undefined
apiContentTypeFilter(content_types) ==
    IF ~Falsy(content_types) /\ Len(content_types.items) = 1
    THEN Str(content_types.items[1])
    ELSE Undefined

\* the request fetchStoriesForSearch / fetchStoriesForVersion sends
QueryRequest(toolName, params, v) ==
    LET urlParams == createPaginationParams(params.page, params.per_page)
    IN  [version |-> v, page |-> urlParams.page, per_page |-> urlParams.per_page,
         content_type |-> IF toolName = "search-content"
                          THEN apiContentTypeFilter(params.content_types)
                          ELSE Undefined]

\* a client-side filter that runs whenever types are given
TypeFilterFromOne(content_types) ==
    ~Falsy(content_types) /\ Len(content_types.items) >= 1

\* content_types && content_types.length > 1
ClientTypeFilter(content_types) ==
    ~Falsy(content_types) /\ Len(content_types.items) > 1

\* story.content?.component && content_types.includes(story.content.component)
TypeAllowed(h, story, content_types) ==
    /\ story.content.t = "ref"
    /\ ~Falsy(PropRead(h[story.content.a], "component"))
    /\ \E i \in 1..Len(content_types.items) :
          PropRead(h[story.content.a], "component") = Str(content_types.items[i])

\* storiesToAnalyze after the client-side content_types filter
storiesToAnalyze(h, stories, content_types) ==
    IF ClientTypeFilter(content_types)
    THEN SelectSeq(stories, LAMBDA story : TypeAllowed(h, story, content_types))
    ELSE stories

\* a field test that searches containers whether or not deep search is on
AlwaysDeep(deep) == TRUE

\* deep_search_nested_components &&
DeepEnabled(deep) == deep

\* the body of the loop over fields_to_search for one field: the field
\* makes the story match
FieldMatches(h, content, fieldPath, lowerCaseQuery, deep) ==
    LET value == GetPath(h, content, fieldPath)
    IN  /\ value # Undefined
        /\ \/ value.t = "string" /\ includes(toLowerCase(value.s), lowerCaseQuery)
           \/ /\ DeepEnabled(deep)
              /\ value.t \in {"ref", "null"}
              /\ recursiveDeepSearch(h, value, {}, lowerCaseQuery, 1).r = "true"

\* storyMatched after the loop over fields_to_search
storyMatched(h, story, params) ==
    /\ ~Falsy(story.content)
    /\ \E i \in 1..Len(params.fields_to_search) :
          FieldMatches(h, story.content, params.fields_to_search[i],
                       toLowerCase(params.query), params.deep_search_nested_components)

\* a component filter that looks through the whole content tree
MatchesAnywhere(h, story, component_name) ==
    /\ ~Falsy(story.content)
    /\ findComponentInValue(h, story.content, component_name, 1) = "true"

\* the predicate of fetchedStoriesData.filter in fetch-stories-by-component
filteredStories(h, story, component_name) ==
    /\ ~Falsy(story.content)
    /\ story.content.t = "ref"
    /\ \/ PropRead(h[story.content.a], "component") = Str(component_name)
       \/ LET body == PropRead(h[story.content.a], "body")
          IN  /\ IsArray(h, body)
              /\ \E i \in 1..Len(h[body.a].vals) :
                    LET bodyComponent == h[body.a].vals[i]
                    IN  /\ bodyComponent.t = "ref"
                        /\ PropRead(h[bodyComponent.a], "component") = Str(component_name)

\* an array of strings given as a parameter
Items(items) == [t |-> "array", items |-> items]

ContentTypesInputs ==
    {Undefined, Items(<< >>), Items(<< << "h" >> >>), Items(<< << "H", "x" >> >>),
     Items(<< << "h" >>, << "H", "x" >> >>), Items(<< << "h" >>, << "g" >> >>)}

SearchQueries == {<< "h" >>, << "X" >>}

SearchFields ==
    {<< << "title" >> >>,
     << << "body" >>, << "title" >> >>,
     << << "missing" >>, << "body", ".", "1", ".", "title" >> >>,
     << << "title" >>, << "footer" >>, << "component" >> >>}

PageInputs    == {Undefined, Num(2)}
PerPageInputs == {Undefined, Num(0), Num(10), Num(MAX_PER_PAGE), Num(MAX_PER_PAGE + 50)}

\* a call of search-content that gives only the required parameters
PlainSearch ==
    [fn |-> "search-content", query |-> << "h" >>,
     fields_to_search |-> << << "title" >> >>, content_types |-> Undefined,
     deep_search_nested_components |-> FALSE, page |-> Undefined,
     per_page |-> Undefined, content_status |-> "both"]

\* the calls of search-content: those that vary the type filter, those that
\* vary the search, and those that vary the paging
SearchCalls ==
    {[PlainSearch EXCEPT !.content_types = ct, !.content_status = cs] :
        ct \in ContentTypesInputs, cs \in {"both", "draft", "published"}}
    \cup
    {[PlainSearch EXCEPT !.query = q, !.fields_to_search = f,
                         !.deep_search_nested_components = d] :
        q \in SearchQueries, f \in SearchFields, d \in BOOLEAN}
    \cup
    {[PlainSearch EXCEPT !.page = p, !.per_page = pp, !.content_status = "draft"] :
        p \in PageInputs, pp \in PerPageInputs}

PlainByComponent ==
    [fn |-> "fetch-stories-by-component", component_name |-> << "h" >>,
     content_types |-> Undefined, page |-> Undefined, per_page |-> Undefined,
     content_status |-> "both"]

ByComponentCalls ==
    {[PlainByComponent EXCEPT !.component_name = n, !.content_status = cs] :
        n \in Names, cs \in {"both", "draft", "published"}}
    \cup
    {[PlainByComponent EXCEPT !.page = p, !.per_page = pp, !.content_status = "draft"] :
        p \in PageInputs, pp \in PerPageInputs}

QueryInit(toolName, calls) ==
    /\ tool = toolName
    /\ pc = "start"
    /\ call \in calls
    /\ content_status = call.content_status
    /\ heap = [a \in Addr |-> EmptyObject]
    /\ root = Null
    /\ pending = {}
    /\ settled = [v \in Versions |-> [kind |-> "none"]]
    /\ arrival = << >>
    /\ result = NoResult
    /\ UsageIdle /\ HistIdle

InitSearch == QueryInit("search-content", SearchCalls)

InitByComponent == QueryInit("fetch-stories-by-component", ByComponentCalls)

\* the handler calls its fetch helper: "draft" then "published", or the one version
QueryStart ==
    /\ tool \in QueryTools /\ pc = "start"
    /\ LET calls == IF content_status = "both" THEN << "draft", "published" >>
                    ELSE << content_status >>
       IN  /\ pending' = {calls[i] : i \in 1..Len(calls)}
           /\ reqLog' = [i \in 1..Len(calls) |-> QueryRequest(tool, call, calls[i])]
    /\ pc' = "await"
    /\ UNCHANGED << tool, treeVars, usageVars, content_status, settled, arrival,
                    result, answered, lastResp, received, failedPage, seenOrder >>

\* the response to one of the requests arrives with a success status
QuerySettleOk ==
    /\ tool \in QueryTools /\ pc = "await"
    /\ \E v \in pending : \E stories \in QueryPages(v), total \in ApiTotals :
         /\ settled' = [settled EXCEPT ![v] = [kind |-> "ok", stories_data |-> stories,
                                               total_from_api |-> total]]
         /\ pending' = pending \ {v}
         /\ arrival' = Append(arrival, v)
         /\ received' = [received EXCEPT ![v] = @ \cup IdsOf(stories)]
    /\ UNCHANGED << tool, pc, treeVars, usageVars, content_status, result,
                    reqLog, answered, lastResp, failedPage, seenOrder >>

\* the response to one of the requests is a failure: handleApiResponse throws
QuerySettleFail ==
    /\ tool \in QueryTools /\ pc = "await"
    /\ \E v \in pending :
         /\ settled' = [settled EXCEPT ![v] = [kind |-> "fail"]]
         /\ pending' = pending \ {v}
         /\ arrival' = Append(arrival, v)
    /\ UNCHANGED << tool, pc, treeVars, usageVars, content_status, result, histVars >>

\* the metadata both tools report about the paging
PagingMetadata(params, total) ==
    [total_items |-> total,
     total_pages |-> CeilDiv(total, per_page_for_calc(params.per_page)),
     current_page_requested |-> IF Falsy(params.page) THEN Undefined ELSE params.page,
     per_page_requested |-> per_page_for_calc(params.per_page)]

\* every request succeeded: merge, filter, analysis, return
QueryReturn ==
    /\ tool \in QueryTools /\ pc = "await"
    /\ pending = {}
    /\ \A v \in Versions : settled[v].kind # "fail"
    /\ LET both    == PromiseAll(<< "draft", "published" >>, settled, arrival)
           draftData     == both[1]
           publishedData == both[2]
           stories == IF content_status = "both"
                      THEN MergeVersions(publishedData.stories_data,
                                         draftData.stories_data)
                      ELSE settled[content_status].stories_data
           total   == ReportedTotal(content_status, draftData, settled)
           analyzed == storiesToAnalyze(QueryHeap, stories, call.content_types)
           matched_stories ==
               SelectSeq(analyzed, LAMBDA story : storyMatched(QueryHeap, story, call))
           kept ==
               SelectSeq(stories,
                         LAMBDA story : filteredStories(QueryHeap, story, call.component_name))
       IN  result' =
             IF tool = "search-content"
             THEN [kind |-> "ok", fetched |-> stories,
                   storiesToAnalyze |-> analyzed,
                   matched_stories |-> matched_stories,
                   stories_analyzed_count |-> Len(analyzed),
                   matches_found_count |-> Len(matched_stories),
                   paging |-> PagingMetadata(call, total)]
             ELSE [kind |-> "ok", fetched |-> stories,
                   stories |-> kept,
                   stories_found_after_filter |-> Len(kept),
                   paging |-> PagingMetadata(call, total)]
    /\ pc' = "done"
    /\ UNCHANGED << tool, treeVars, usageVars, fetchVars, histVars >>

\* a request failed: the await throws.  fetch-stories-by-component catches
\* and returns an error payload; search-content has no try block, and its
\* handler rejects
QueryFail ==
    /\ tool \in QueryTools /\ pc = "await"
    /\ \E v \in Versions : settled[v].kind = "fail"
    /\ result' = IF tool = "search-content" THEN [kind |-> "thrown"]
                 ELSE [kind |-> "error"]
    /\ pc' = "done"
    /\ UNCHANGED << tool, treeVars, usageVars, fetchVars, histVars >>

NextQueryTools ==
    QueryStart \/ QuerySettleOk \/ QuerySettleFail \/ QueryReturn \/ QueryFail

SpecSearch == InitSearch /\ [][NextQueryTools]_vars

SpecByComponent == InitByComponent /\ [][NextQueryTools]_vars

(***************************************************************************)
(* create-story.  The handler runs from one await to the next; reqLog      *)
(* holds the requests it has issued, in order.                             *)
(***************************************************************************)
CreateTool == "create-story"

\* contents given to create-story: component absent, a name, a number or
\* the empty string; title absent or present
CreateContents ==
    {ObjectOf(<< "component", "title" >>,
              [k \in {"component", "title"} |-> IF k = "component" THEN c ELSE t]) :
       c \in {Undefined, Str(<< "h" >>), Num(1), Str(<< >>)},
       t \in {Undefined, Str(<< "h" >>)}}

\* schemas of the component: with or without a field named component, and
\* title absent, required or optional
CreateSchemas ==
    {ObjectOf(<< "component", "title" >>,
              [k \in {"component", "title"} |-> IF k = "component" THEN c ELSE t]) :
       c \in {Undefined, Ref(NoFlag)},
       t \in {Undefined, Ref(ReqTrue), Ref(ReqFalse)}}

\* the parameters of a call, and two locals of the handler: the answer to
\* GET /components and creationData?.story?.id
CreateParams ==
    [fn : {CreateTool}, content : {Ref(ContentAddr)},
     validate_before_create : {Undefined, Bool(TRUE), Bool(FALSE)},
     auto_publish : BOOLEAN, return_full_story : BOOLEAN,
     data : {NoAnswer}, storyId : {Undefined}]

\* the progress of the handler: creationData?.story?.id and publishStatus
Running(storyId, publishStatus) ==
    [kind |-> "running", storyId |-> storyId, publishStatus |-> publishStatus]

InitCreate ==
    /\ tool = CreateTool
    /\ pc = "start"
    /\ \E content \in CreateContents, schema \in CreateSchemas :
         heap = [StageHeap EXCEPT ![SchemaAddr] = schema, ![ContentAddr] = content]
    /\ root = Null
    /\ call \in CreateParams
    /\ result = NoResult
    /\ UsageIdle /\ FetchIdle /\ HistIdle

\* a validation that never stops the creation
GateAlwaysOpen(validationErrors) == TRUE

\* validationErrors.length > 0 is false: the handler goes on to create
GateOpen(validationErrors) == Len(validationErrors) = 0

\* !content || !content.component || typeof content.component !== 'string'
ComponentMissing(h, content) ==
    \/ Falsy(content)
    \/ Falsy(PropRead(h[content.a], "component"))
    \/ PropRead(h[content.a], "component").t # "string"

\* the handler up to its first await: the check of content.component and the
\* request for the components, or the create request at once
CreateBegin ==
    /\ tool = CreateTool /\ pc = "start"
    /\ IF ~Falsy(call.validate_before_create)
       THEN IF ComponentMissing(heap, call.content)
            THEN /\ result' = [kind |-> "error", error |-> "component_required"]
                 /\ pc' = "done"
                 /\ UNCHANGED reqLog
            ELSE /\ reqLog' = Append(reqLog, GetComponents)
                 /\ pc' = "schema"
                 /\ UNCHANGED result
       ELSE /\ reqLog' = Append(reqLog, PostStory)
            /\ pc' = "create"
            /\ UNCHANGED result
    /\ UNCHANGED << tool, treeVars, usageVars, fetchVars,
                    answered, lastResp, received, failedPage, seenOrder >>

\* the answer to GET /components arrives: schema lookup, validation, and the
\* create request when validation found nothing
CreateSchemaAnswer ==
    /\ tool = CreateTool /\ pc = "schema"
    /\ \E answer \in ComponentsAnswers :
         LET componentName   == PropRead(heap[call.content.a], "component")
             componentSchema == getComponentSchemaByName(answer, componentName)
             v == validate(CreateTool, heap, heap[componentSchema.a],
                           heap[call.content.a])
         IN  /\ call' = [call EXCEPT !.data = answer]
             /\ IF answer.kind = "fail"
                THEN /\ result' = [kind |-> "error", error |-> "exception"]
                     /\ pc' = "done"
                     /\ UNCHANGED reqLog
                ELSE IF Falsy(componentSchema)
                THEN /\ result' = [kind |-> "error", error |-> "schema_not_found"]
                     /\ pc' = "done"
                     /\ UNCHANGED reqLog
                ELSE IF ~GateOpen(v.errors)
                THEN /\ result' = [kind |-> "validationFailed", isValid |-> FALSE,
                                   errors |-> v.errors,
                                   missingFields |-> v.missingFields,
                                   extraneousFields |-> v.extraneousFields]
                     /\ pc' = "done"
                     /\ UNCHANGED reqLog
                ELSE /\ reqLog' = Append(reqLog, PostStory)
                     /\ pc' = "create"
                     /\ UNCHANGED result
    /\ UNCHANGED << tool, heap, root, usageVars, fetchVars,
                    answered, lastResp, received, failedPage, seenOrder >>

\* answers to POST /stories: a failure, a success without a story id, or a
\* success with the id of the new story
CreateAnswers == {"fail", "noid", "id"}

\* the answer to POST /stories arrives: publish, fetch or return
CreateAnswer ==
    /\ tool = CreateTool /\ pc = "create"
    /\ \E answer \in CreateAnswers :
         LET storyId == IF answer = "id" THEN Num(1) ELSE Undefined
         IN  IF answer = "fail"
             THEN /\ result' = [kind |-> "error", error |-> "exception"]
                  /\ pc' = "done"
                  /\ UNCHANGED << reqLog, call >>
             ELSE /\ call' = [call EXCEPT !.storyId = storyId]
                  /\ IF call.auto_publish /\ ~Falsy(storyId)
                     THEN /\ reqLog' = Append(reqLog, PostPublish)
                          /\ result' = Running(storyId, Null)
                          /\ pc' = "publish"
                     ELSE IF call.return_full_story /\ ~Falsy(storyId)
                     THEN /\ reqLog' = Append(reqLog, GetStory)
                          /\ result' = Running(storyId, Null)
                          /\ pc' = "fetch"
                     ELSE /\ result' = [kind |-> "ok", storyId |-> storyId,
                                        publish_status |-> Null, full |-> FALSE]
                          /\ pc' = "done"
                          /\ UNCHANGED reqLog
    /\ UNCHANGED << tool, heap, root, usageVars, fetchVars,
                    answered, lastResp, received, failedPage, seenOrder >>

\* the answer to the publish request arrives; a failure is caught and noted
PublishAnswer ==
    /\ tool = CreateTool /\ pc = "publish"
    /\ \E ok \in BOOLEAN :
         LET publishStatus == Bool(ok)
         IN  IF call.return_full_story
             THEN /\ reqLog' = Append(reqLog, GetStory)
                  /\ result' = Running(result.storyId, publishStatus)
                  /\ pc' = "fetch"
             ELSE /\ result' = [kind |-> "ok", storyId |-> result.storyId,
                                publish_status |-> publishStatus, full |-> FALSE]
                  /\ pc' = "done"
                  /\ UNCHANGED reqLog
    /\ UNCHANGED << tool, treeVars, usageVars, fetchVars,
                    answered, lastResp, received, failedPage, seenOrder >>

\* answers to GET /stories/:id: a failure, or a success whose body is a
\* container, null, or a string, number or boolean
FullStoryAnswers == {"fail", "container", "null", "primitive"}

\* finalData.publish_status = publishStatus throws on a finalData that is
\* null or a primitive
CannotSetProperty(finalData) == finalData \in {"null", "primitive"}

\* the answer to the follow-up fetch arrives.  A failure falls back to the
\* creation data; a successful answer becomes finalData whatever its body
\* is, and with a publish status the assignment to a body that is no
\* container throws into the outer catch
FullStoryAnswer ==
    /\ tool = CreateTool /\ pc = "fetch"
    /\ \E answer \in FullStoryAnswers :
         LET finalData == IF answer = "fail" THEN "container" ELSE answer
         IN  result' =
               IF result.publishStatus # Null /\ CannotSetProperty(finalData)
               THEN [kind |-> "error", error |-> "exception"]
               ELSE [kind |-> "ok", storyId |-> result.storyId,
                     publish_status |-> result.publishStatus,
                     full |-> answer # "fail"]
    /\ pc' = "done"
    /\ UNCHANGED << tool, treeVars, usageVars, fetchVars, histVars >>

NextCreate ==
    CreateBegin \/ CreateSchemaAnswer \/ CreateAnswer \/ PublishAnswer \/ FullStoryAnswer

SpecCreate == InitCreate /\ [][NextCreate]_vars

(***************************************************************************)
(* The bulk tools.  One loop over the input items; each item is one        *)
(* request (for bulk-update-stories with publish, a second one) awaited    *)
(* inside a try block.                                                     *)
(***************************************************************************)
MaxItems == 3    \* input items of a bulk call

BulkTools ==
    {"bulk-publish-stories", "bulk-delete-stories", "bulk-update-stories",
     "bulk-create-stories"}

\* the method of the request a bulk tool makes for an item
BulkMethod(toolName) ==
    CASE toolName = "bulk-publish-stories" -> "POST"
      [] toolName = "bulk-delete-stories"  -> "DELETE"
      [] toolName = "bulk-update-stories"  -> "PUT"
      [] toolName = "bulk-create-stories"  -> "POST"

\* an input item: its id (for bulk-create-stories its slug), and for
\* bulk-update-stories whether to publish after the update
BulkItems(toolName) ==
    [id : {"1", "2"},
     publish : IF toolName = "bulk-update-stories" THEN BOOLEAN ELSE {FALSE}]

BulkInputs(toolName) ==
    UNION {[1..n -> BulkItems(toolName)] : n \in 1..MaxItems}

\* results, successful_operations, failed_operations and the position of
\* the loop
Looping(i, results, successful_operations, failed_operations) ==
    [kind |-> "running", i |-> i, results |-> results,
     successful_operations |-> successful_operations,
     failed_operations |-> failed_operations]

InitBulk ==
    /\ tool \in BulkTools
    /\ pc = "loop"
    /\ \E items \in BulkInputs(tool) :
         call = [fn |-> tool, items |-> items]
    /\ result = Looping(1, << >>, 0, 0)
    /\ heap = [a \in Addr |-> EmptyObject]
    /\ root = Null
    /\ UsageIdle /\ FetchIdle /\ HistIdle

\* a loop that gives up at the first item that fails
StopOnError(r, entry, n) ==
    Looping(IF entry.status = "error" THEN n + 1 ELSE r.i + 1,
            Append(r.results, entry),
            r.successful_operations + (IF entry.status = "success" THEN 1 ELSE 0),
            r.failed_operations + (IF entry.status = "error" THEN 1 ELSE 0))

\* results.push(entry); successful_operations++ or failed_operations++; the
\* loop goes on to the next of the n items
AfterItem(r, entry, n) ==
    Looping(r.i + 1,
            Append(r.results, entry),
            r.successful_operations + (IF entry.status = "success" THEN 1 ELSE 0),
            r.failed_operations + (IF entry.status = "error" THEN 1 ELSE 0))

BulkEntry(item, status, published) ==
    [id |-> item.id, status |-> status, published |-> published]

BulkRequest(i, item, step, method) ==
    [item |-> i, id |-> item.id, step |-> step, method |-> method]

\* the loop takes the next item and issues its request
BulkIssue ==
    /\ tool \in BulkTools /\ pc = "loop"
    /\ result.i <= Len(call.items)
    /\ reqLog' = Append(reqLog, BulkRequest(result.i, call.items[result.i], "main",
                                            BulkMethod(tool)))
    /\ pc' = "request"
    /\ UNCHANGED << tool, treeVars, usageVars, fetchVars, result,
                    answered, lastResp, received, failedPage, seenOrder >>

\* the answer to the item's request arrives
BulkAnswer ==
    /\ tool \in BulkTools /\ pc = "request"
    /\ \E ok \in BOOLEAN :
         LET item == call.items[result.i]
             n    == Len(call.items)
         IN  IF ~ok
             THEN /\ result' = AfterItem(result, BulkEntry(item, "error", FALSE), n)
                  /\ pc' = "loop"
                  /\ UNCHANGED reqLog
             ELSE IF tool = "bulk-update-stories" /\ item.publish
             THEN /\ reqLog' = Append(reqLog, BulkRequest(result.i, item, "publish", "POST"))
                  /\ pc' = "publish"
                  /\ UNCHANGED result
             ELSE /\ result' = AfterItem(result, BulkEntry(item, "success", FALSE), n)
                  /\ pc' = "loop"
                  /\ UNCHANGED reqLog
    /\ UNCHANGED << tool, treeVars, usageVars, fetchVars,
                    answered, lastResp, received, failedPage, seenOrder >>

\* bulk-update-stories: the answer to the publish request arrives; a failure
\* is caught and the update still counts as a success
BulkPublishAnswer ==
    /\ tool \in BulkTools /\ pc = "publish"
    /\ \E ok \in BOOLEAN :
         result' = AfterItem(result, BulkEntry(call.items[result.i], "success", ok),
                             Len(call.items))
    /\ pc' = "loop"
    /\ UNCHANGED << tool, treeVars, usageVars, fetchVars, histVars >>

\* the loop is over: the summary is returned
BulkReturn ==
    /\ tool \in BulkTools /\ pc = "loop"
    /\ result.i > Len(call.items)
    /\ result' = [kind |-> "ok", total_processed |-> Len(call.items),
                  successful_operations |-> result.successful_operations,
                  failed_operations |-> result.failed_operations,
                  results |-> result.results]
    /\ pc' = "done"
    /\ UNCHANGED << tool, treeVars, usageVars, fetchVars, histVars >>

NextBulk == BulkIssue \/ BulkAnswer \/ BulkPublishAnswer \/ BulkReturn

SpecBulk == InitBulk /\ [][NextBulk]_vars

(***************************************************************************)
(* The query tools together, and the whole model.                          *)
(***************************************************************************)
InitQuery == InitUsage \/ InitFetch

NextQuery == NextUsage \/ NextFetch

SpecQuery == InitQuery /\ [][NextQuery]_vars

\* the four tools that merge the records of two versions
InitMerge == InitUsage \/ InitFetch \/ InitSearch \/ InitByComponent

NextMerge == NextUsage \/ NextFetch \/ NextQueryTools

SpecMerge == InitMerge /\ [][NextMerge]_vars

Init ==
    \/ InitTree \/ InitPath \/ InitStages \/ InitUsage \/ InitFetch
    \/ InitSearch \/ InitByComponent \/ InitCreate \/ InitBulk

Next == NextTree \/ NextPath \/ NextStages \/ NextUsage \/ NextFetch \/ NextQueryTools
    \/ NextCreate \/ NextBulk

Spec == Init /\ [][Next]_vars

(***************************************************************************)
(* Definitions used to state the properties.                               *)
(***************************************************************************)
UsageTool == tool = "get-component-usage"
FetchTool == tool = "fetch-stories"

\* the page numbers requested for version v, in the order of the requests
PagesRequested(v) ==
    LET reqs == SelectSeq(reqLog, LAMBDA r : r.version = v)
    IN  [i \in 1..Len(reqs) |-> reqs[i].page]

NumReqs(v) == Len(PagesRequested(v))

\* the merged record list of a finished query
Merged == IF UsageTool THEN MapValues(allStoriesMap) ELSE result.stories

\* the merged record list of a finished call of any of the four tools that
\* merge versions: for search-content and fetch-stories-by-component the
\* list before the type filter, the matching and the component filter
MergedOf ==
    IF tool \in QueryTools THEN result.fetched ELSE Merged

\* the record of id in the listing of version v, as the remote gives it to
\* the tool
RemoteRecord(id, v) ==
    IF tool \in QueryTools THEN QueryStory(id, v) ELSE Story(id, v)

ReceivedIds == received["published"] \cup received["draft"]

\* the total a finished call of fetch-stories, fetch-stories-by-component or
\* search-content reports
TotalOf ==
    IF tool \in QueryTools THEN result.paging.total_items
    ELSE result.total_items_from_api

\* published first, draft overwriting in place, draft-only records after them
ExpectedMerge(publishedStories, draftStories) ==
    LET ids == FirstIds(publishedStories \o draftStories, 1, {})
    IN  [i \in 1..Len(ids) |->
            IF ids[i] \in IdsOf(draftStories) THEN RemoteRecord(ids[i], "draft")
                                              ELSE RemoteRecord(ids[i], "published")]

\* no container reachable from v is reachable from itself
Acyclic(h, v) == \A a \in Reach(h, v) : a \notin ReachFrom(h, RefsOf(h, {a}))

\* the reachable objects whose component field is the name
ComponentNodes(h, v, name) ==
    {a \in Reach(h, v) : /\ h[a].kind = "object"
                         /\ GetProp(h[a], "component") = Str(name)}

\* the strings held anywhere in the tree under v
StringLeaves(h, v) ==
    IF v.t = "string" THEN {v.s}
    ELSE {h[e[1]].vals[e[2]].s :
            e \in {x \in Reach(h, v) \X (1..MaxWidth + 1) :
                      /\ x[2] <= Len(h[x[1]].vals)
                      /\ h[x[1]].vals[x[2]].t = "string"}}

\* the letter c without its case
CaseFold(c) ==
    IF c \in {"H", "h"} THEN "h" ELSE IF c \in {"X", "x"} THEN "x" ELSE c

\* string s holds query q at some offset, case disregarded
LeafMatches(s, q) ==
    \E off \in 0..(Len(s) - Len(q)) :
        \A k \in 1..Len(q) : CaseFold(s[off + k]) = CaseFold(q[k])

\* the version whose record the merge prefers for a received id
PreferredVersion(id) == IF id \in received["draft"] THEN "draft" ELSE "published"

\* the received ids whose preferred content holds the component
IdsUsing(name) ==
    {id \in ReceivedIds :
        ComponentNodes(StoryHeap, ContentOf(id, PreferredVersion(id)), name) # {}}

\* the ids of a record list, in order
IdSeq(stories) == [i \in 1..Len(stories) |-> stories[i].id]

\* the ids the two versions of a finished query delivered, published first,
\* each at its first occurrence
ExpectedOrder ==
    IF UsageTool THEN seenOrder
    ELSE FirstIds(settled["published"].stories_data \o settled["draft"].stories_data, 1, {})

\* the value getValueByPath has come to before segment i of the path
ValueBefore(h, obj, parts, i) ==
    IF i = 1 THEN obj ELSE getValueByPath(h, obj, SubSeq(parts, 1, i - 1))

\* segment seg does not resolve on value cur: cur is no container, an index
\* is out of the bounds of a sequence, or cur has no own field of that name
StepUnresolved(h, cur, seg) ==
    \/ cur.t # "ref"
    \/ IsArray(h, cur) /\ IsDigits(seg) /\ ParseInt(seg) >= Len(h[cur.a].vals)
    \/ IsArray(h, cur) /\ ~IsDigits(seg) /\ ~HasKey(h[cur.a].keys, seg)
    \/ IsObject(h, cur) /\ ~HasKey(h[cur.a].keys, seg)

\* an all-digits segment is applied to a value that is not a sequence
IndexOnNonSequence(h, cur, seg) == IsDigits(seg) /\ ~IsArray(h, cur)

(***************************************************************************)
(* Schema validation, stated from the outside: the fields a schema         *)
(* requires, the fields a content has, and the validation result as read   *)
(* back from a response.                                                   *)
(***************************************************************************)
\* the schema keys whose descriptor has required true and for which the
\* content has no value
ExpectedMissing(h, schemaNode, contentNode) ==
    {k \in Range(schemaNode.keys) :
        /\ GetProp(schemaNode, k).t = "ref"
        /\ GetProp(h[GetProp(schemaNode, k).a], "required") = Bool(TRUE)
        /\ GetProp(contentNode, k) = Undefined}

\* the content keys that are no keys of the schema
ExpectedExtraneous(schemaNode, contentNode) ==
    Range(contentNode.keys) \ Range(schemaNode.keys)

\* v is the result the claim describes for that schema and that content
ResultAgrees(v, h, schemaNode, contentNode) ==
    LET missing    == ExpectedMissing(h, schemaNode, contentNode)
        extraneous == ExpectedExtraneous(schemaNode, contentNode)
    IN  /\ Range(v.missingFields) = missing
        /\ Len(v.missingFields) = Cardinality(missing)
        /\ Range(v.extraneousFields) = extraneous
        /\ Len(v.extraneousFields) = Cardinality(extraneous)
        /\ Len(v.errors) = Cardinality(missing) + Cardinality(extraneous)
        /\ \A k \in missing :
              \E i \in 1..Len(v.errors) :
                 v.errors[i].field = k /\ v.errors[i].type = "missing_required"
        /\ \A k \in extraneous :
              \E i \in 1..Len(v.errors) :
                 v.errors[i].field = k /\ v.errors[i].type = "extraneous_field"
        /\ v.isValid <=> (missing = {} /\ extraneous = {})

\* the names held by an array of strings
NamesIn(h, arr) == [i \in 1..Len(h[arr.a].vals) |-> h[arr.a].vals[i].s[1]]

\* the validation object attached to a story of the response, read back
AttachedResult(h, validation) ==
    LET node   == h[validation.a]
        errors == h[GetProp(node, "errors").a].vals
    IN  [isValid          |-> GetProp(node, "isValid").b,
         missingFields    |-> NamesIn(h, GetProp(node, "missingFields")),
         extraneousFields |-> NamesIn(h, GetProp(node, "extraneousFields")),
         errors |-> [i \in 1..Len(errors) |->
                        [field |-> GetProp(h[errors[i].a], "field").s[1],
                         type  |-> GetProp(h[errors[i].a], "type").s[1]]]]

\* no deep_filter was given
Unfiltered(params) == params.deep_filter = Undefined

\* no projection was asked for
Unprojected(params) == params.fields = Undefined /\ params.summary_mode = Undefined

StagesDone(fn) == tool = "stages" /\ pc = "done" /\ call.fn = fn /\ result.kind = "ok"

\* the listing was obtained and holds no schema for that name: there is no
\* array of components, or none of them has the name, or the first that has
\* it has no schema
LookupFindsNothing(data, name) ==
    /\ data.kind = "ok"
    /\ \/ ~data.isArray
       \/ \A i \in 1..Len(data.components) :
             (/\ data.components[i].name = name
              /\ \A j \in 1..(i - 1) : data.components[j].name # name)
                => data.components[i].schema = Null

\* the story of a response carries a validation annotation
Annotated(h, story) == GetProp(h[story.a], "validation") # Undefined

\* the fields parameter is given and is not blank
NonBlank(fields) == fields.t = "string" /\ \E i \in 1..Len(fields.s) : fields.s[i] # " "

\* the first segment of a path
FirstSegment(path) == PathParts(path)[1]

\* out is a fresh record with one top-level member for each path of the list
\* that resolves in the source record src, and no other member
ProjectedBy(h, out, src, paths) ==
    /\ out.a \notin DOMAIN StageHeap
    /\ Range(h[out.a].keys) =
          {FirstSegment(paths[j]) :
              j \in {k \in 1..Len(paths) : GetPath(StageHeap, src, paths[k]) # Undefined}}

\* the path list the projection of a call goes by: the fields list when one
\* is given, the summary list when only summary_mode is set
PathsUsed(params) ==
    IF NonBlank(params.fields) THEN requestedPaths(params.fields.s)
    ELSE IF params.summary_mode = Bool(TRUE) THEN PREDEFINED_SUMMARY_FIELDS
    ELSE << >>

IsPrefix(p, q) == Len(p) <= Len(q) /\ SubSeq(q, 1, Len(p)) = p

\* the names of the members a container has: the fields of an object, the
\* filled positions and the named properties of an array
IndexNames == << "0", "1" >>

MemberNames(node) ==
    IF node.kind = "array"
    THEN {IndexNames[i] : i \in {j \in 1..Len(node.vals) :
                                    j <= Len(IndexNames) /\ node.vals[j] # Undefined}}
         \cup Range(node.keys)
    ELSE Range(node.keys)

ProbeDepth == 4

RECURSIVE MemberPaths(_, _, _)
\* the paths (of at most d segments) of all members found under value v
MemberPaths(h, v, d) ==
    IF v.t # "ref" \/ d = 0 THEN {}
    ELSE UNION {{<< k >>} \cup {<< k >> \o q :
                                  q \in MemberPaths(h, PropRead(h[v.a], k), d - 1)} :
                  k \in MemberNames(h[v.a])}

\* the value a deep_filter path names in a record: the path is taken in the
\* record when it starts with "content.", in the record's content otherwise
FilterValue(h, story, path) ==
    IF Len(path) >= 2 /\ SubSeq(path, 1, 2) = << "content", "." >>
    THEN GetPath(h, story, path)
    ELSE GetPath(h, GetProp(h[story.a], "content"), path)

\* every pair of the filter agrees with the record
KeptByFilter(h, story, filter) ==
    \/ filter = Undefined
    \/ \A i \in 1..Len(filter.entries) :
          String(h, FilterValue(h, story, filter.entries[i].path))
             = filter.entries[i].expected

\* the number of types a call of search-content lists
TypeCount(content_types) ==
    IF content_types = Undefined THEN 0 ELSE Len(content_types.items)

\* the component named by the content of a record, or undefined
ComponentOfRecord(story) ==
    IF story.content.t = "ref"
    THEN GetProp(QueryHeap[story.content.a], "component")
    ELSE Undefined

\* the record's component is one of the listed types
OfListedType(story, content_types) ==
    \E i \in 1..Len(content_types.items) :
        ComponentOfRecord(story) = Str(content_types.items[i])

SearchReturned == tool = "search-content" /\ pc = "done" /\ result.kind = "ok"

\* the value a dotted path reaches from the content of a record of the
\* search, segment by segment: an index on a sequence, an own field on a
\* mapping, undefined otherwise
RECURSIVE WalkSegments(_, _)
WalkSegments(value, segs) ==
    IF segs = << >> THEN value
    ELSE IF value.t # "ref" \/ Len(segs[1]) # 1 THEN Undefined
    ELSE LET node == QueryHeap[value.a]
             seg  == segs[1][1]
         IN  IF node.kind = "array" /\ seg \in {"0", "1", "01"}
             THEN LET index == IF seg = "0" THEN 0 ELSE 1
                  IN  IF index < Len(node.vals)
                      THEN WalkSegments(node.vals[index + 1], Tail(segs))
                      ELSE Undefined
             ELSE IF node.kind = "object" /\ \E k \in 1..Len(node.keys) : node.keys[k] = seg
                  THEN WalkSegments(GetProp(node, seg), Tail(segs))
                  ELSE Undefined

\* the segments of a path: the units between the dots
RECURSIVE SegmentsOf(_, _)
SegmentsOf(path, cur) ==
    IF path = << >> THEN << cur >>
    ELSE IF Head(path) = "." THEN << cur >> \o SegmentsOf(Tail(path), << >>)
    ELSE SegmentsOf(Tail(path), Append(cur, Head(path)))

ValueUnderContent(story, path) ==
    IF story.content.t # "ref" \/ path = << >> THEN Undefined
    ELSE WalkSegments(story.content, SegmentsOf(path, << >>))

\* the containers reachable from a value, the value included
RECURSIVE ReachableFrom(_, _)
ReachableFrom(frontier, seen) ==
    LET next == {b \in 1..Len(QueryHeap) :
                    \E a \in frontier : \E i \in 1..Len(QueryHeap[a].vals) :
                        QueryHeap[a].vals[i] = Ref(b)}
    IN  IF next \subseteq seen THEN seen
        ELSE ReachableFrom(next \ seen, seen \cup next)

\* some string inside the value, at any depth, contains the text
TextWithin(value, text) ==
    \E a \in ReachableFrom({value.a}, {value.a}) :
        \E i \in 1..Len(QueryHeap[a].vals) :
            LET v == QueryHeap[a].vals[i]
            IN  v.t = "string" /\ includes(toLowerCase(v.s), text)

\* the record is to be matched by the search of the call
ShouldMatch(story, params) ==
    \E j \in 1..Len(params.fields_to_search) :
        LET value == ValueUnderContent(story, params.fields_to_search[j])
            text  == toLowerCase(params.query)
        IN  \/ value.t = "string" /\ includes(toLowerCase(value.s), text)
            \/ /\ params.deep_search_nested_components
               /\ value.t = "ref"
               /\ TextWithin(value, text)

ByComponentReturned ==
    tool = "fetch-stories-by-component" /\ pc = "done" /\ result.kind = "ok"

\* the containers that are direct elements of the sequence under body
BodyElements(story) ==
    LET body == GetProp(QueryHeap[story.content.a], "body")
    IN  IF body.t = "ref" /\ QueryHeap[body.a].kind = "array"
        THEN {b \in 1..Len(QueryHeap) :
                 \E i \in 1..Len(QueryHeap[body.a].vals) : QueryHeap[body.a].vals[i] = Ref(b)}
        ELSE {}

\* the record's content is of the component, or a direct element of its
\* body is
DirectlyUses(story, component_name) ==
    /\ story.content.t = "ref"
    /\ \E a \in {story.content.a} \cup BodyElements(story) :
          GetProp(QueryHeap[a], "component") = Str(component_name)

\* the request has been issued
Issued(request) == \E i \in 1..Len(reqLog) : reqLog[i] = request

\* the content given to create-story and the schema the remote holds
GivenContent == heap[ContentAddr]
HeldSchema   == heap[SchemaAddr]

\* the content names its component by a non-empty string
HasStringComponent ==
    LET c == GetProp(GivenContent, "component")
    IN  c.t = "string" /\ c.s # << >>

\* the answer to GET /components held a schema for the content's component
SchemaWasFound ==
    /\ call.data.kind = "ok" /\ call.data.isArray
    /\ \E i \in 1..Len(call.data.components) :
          /\ call.data.components[i].name = GetProp(GivenContent, "component")
          /\ call.data.components[i].schema # Null
          /\ \A j \in 1..(i - 1) :
                call.data.components[j].name # GetProp(GivenContent, "component")

\* validation of the content against the schema has nothing to report
NoDiagnostics ==
    /\ \A i \in 1..Len(HeldSchema.keys) :
          (HeldSchema.vals[i] = Ref(ReqTrue))
              => \E k \in 1..Len(GivenContent.keys) :
                    GivenContent.keys[k] = HeldSchema.keys[i]
    /\ \A k \in 1..Len(GivenContent.keys) :
          \E i \in 1..Len(HeldSchema.keys) : HeldSchema.keys[i] = GivenContent.keys[k]

GatePassed == HasStringComponent /\ SchemaWasFound /\ NoDiagnostics

\* the requests of a bulk call that open the processing of an item
MainRequests == SelectSeq(reqLog, LAMBDA q : q.step = "main")

\* the entries of a result list with the given status
CountStatus(results, status) ==
    Cardinality({k \in 1..Len(results) : results[k].status = status})

\* the loop of the current version stands at the page cap with more records
\* believed to remain
LoopAtCapWithMore == pagesFetched >= MAX_PAGES /\ hasMore

\* this step ends the loop of the current version
EndsVersionLoop ==
    pc = "loop" /\ (version' # version \/ pc' = "analyze")

\* one step of get-component-usage, as far as the limit flag goes
LimitFlagStep ==
    tool = "get-component-usage" =>
        /\ limitReached => limitReached'
        /\ IF EndsVersionLoop
           THEN limitReached' = (limitReached \/ LoopAtCapWithMore)
           ELSE limitReached' = limitReached
        /\ (version = "published" /\ version' = "draft") => pagesFetched' = 0
        /\ (pc = "analyze" /\ pc' = "done") =>
               result'.search_limit_reached = limitReached

\* the values recursiveDeepSearch is called with during a search from the
\* root: the root and the containers below it
SearchedValues == {root} \cup {Ref(a) : a \in Reach(heap, root)}

\* the container is held in two places of the tree below the root
HeldTwice(b) ==
    \E s1, s2 \in Reach(heap, root) \X (1..MaxWidth + 1) :
        /\ s1 # s2
        /\ s1[2] <= Len(heap[s1[1]].vals) /\ heap[s1[1]].vals[s1[2]] = Ref(b)
        /\ s2[2] <= Len(heap[s2[1]].vals) /\ heap[s2[1]].vals[s2[2]] = Ref(b)

\* some string held in or below the value contains the text
HoldsText(v, text) ==
    \E s \in StringLeaves(heap, v) : includes(toLowerCase(s), toLowerCase(text))

\* the payload tells its reader that the search may be incomplete
PayloadSignalsIncomplete(r) == r.search_limit_reached \/ r.message_notes_limit

FailedVersions == {v \in Versions : failedPage[v] > 0}

\* the paging of version v has ended
LoopEnded(v) ==
    \/ v = "published" /\ version = "draft"
    \/ pc \in {"analyze", "done"}

\* the last response is page MAX_PAGES of its version, it is full, and the
\* remote reports more records than were received for that version
LastPageAtCapWithMore ==
    /\ lastResp.kind = "ok"
    /\ lastResp.page = MAX_PAGES
    /\ lastResp.len = PER_PAGE
    /\ lastResp.fetched < lastResp.total

(***************************************************************************)
(* C1.  Draft wins in the merge: when fetch-stories,                       *)
(* fetch-stories-by-component or search-content has run with               *)
(* content_status "both", or get-component-usage has merged its two        *)
(* versions, the merged list holds exactly one record per id received in a *)
(* published or draft page, and for every id received in a draft page it   *)
(* holds the draft record.                                                 *)
(***************************************************************************)
Thm_C1_DraftWins ==
    (/\ pc = "done" /\ result.kind = "ok"
     /\ UsageTool \/ content_status = "both")
    => /\ \A i, j \in 1..Len(MergedOf) : i # j => MergedOf[i].id # MergedOf[j].id
       /\ IdsOf(MergedOf) = ReceivedIds
       /\ \A i \in 1..Len(MergedOf) :
            MergedOf[i] = IF MergedOf[i].id \in received["draft"]
                          THEN RemoteRecord(MergedOf[i].id, "draft")
                          ELSE RemoteRecord(MergedOf[i].id, "published")

Wit_C1_DraftWins ==
    /\ FetchTool /\ pc = "done" /\ result.kind = "ok" /\ content_status = "both"
    /\ received["published"] \cap received["draft"] # {}
    /\ received["published"] \ received["draft"] # {}
    /\ Len(result.stories) = 2

(***************************************************************************)
(* C2.  The merge does not depend on completion order: for content_status  *)
(* "both" in fetch-stories, fetch-stories-by-component and search-content  *)
(* the merged list (contents and order) and the reported total are         *)
(* determined by the published and the draft response alone, whichever     *)
(* arrived first, and a published record never replaces a draft record.    *)
(***************************************************************************)
Thm_C2_OrderIndependent ==
    (/\ FetchTool \/ tool \in QueryTools
     /\ pc = "done" /\ result.kind = "ok" /\ content_status = "both")
    => /\ MergedOf = ExpectedMerge(settled["published"].stories_data,
                                   settled["draft"].stories_data)
       /\ TotalOf = settled["draft"].total_from_api
       /\ \A i \in 1..Len(MergedOf) :
            MergedOf[i].id \in received["draft"]
                => MergedOf[i].version = "draft"

Wit_C2_PublishedArrivesFirst ==
    /\ FetchTool /\ pc = "done" /\ result.kind = "ok" /\ content_status = "both"
    /\ arrival = << "published", "draft" >>
    /\ received["published"] \cap received["draft"] # {}
    /\ settled["published"].total_from_api # settled["draft"].total_from_api

(***************************************************************************)
(* C3.  Stop rule of get-component-usage, per version: after page k of a   *)
(* version was fetched successfully, page k+1 is requested if and only if  *)
(* k is below the page cap, page k was full, and fewer records were        *)
(* received for that version than the total it reports.                    *)
(***************************************************************************)
Claim_C3_StopRulePerVersion ==
    (/\ UsageTool /\ pc = "loop"
     /\ lastResp.kind = "ok" /\ lastResp.version = version)
    => ((hasMore /\ pagesFetched < MAX_PAGES /\ currentPage = lastResp.page + 1)
        <=> (/\ lastResp.page < MAX_PAGES
             /\ lastResp.len = PER_PAGE
             /\ lastResp.fetched < lastResp.total))

(***************************************************************************)
(* C4.  Page cap of get-component-usage: no version is asked for more than *)
(* MAX_PAGES pages; if the paging of a version stopped at the cap with a   *)
(* full last page while the remote reports more records than were          *)
(* received, the limit flag is set and the result carries                  *)
(* search_limit_reached true; if no version was asked for MAX_PAGES pages  *)
(* the flag is false.                                                      *)
(***************************************************************************)
Claim_C4_PageCapFlag ==
    UsageTool
    => /\ \A v \in Versions : NumReqs(v) <= MAX_PAGES
       /\ (LoopEnded(lastResp.version) /\ LastPageAtCapWithMore)
            => IF pc = "done" THEN result.search_limit_reached ELSE limitReached
       /\ pc = "done"
            => /\ result.search_limit_reached = limitReached
               /\ (\A v \in Versions : NumReqs(v) < MAX_PAGES)
                    => ~result.search_limit_reached

(***************************************************************************)
(* C5.  A failed page ends the paging of its version only: no further page *)
(* of that version is requested, every record received (of either         *)
(* version) is in the merged set that is analyzed, pages of the other      *)
(* version are requested all the same, and the handler returns a normal    *)
(* result.                                                                 *)
(***************************************************************************)
Thm_C5_FailureIsolated ==
    UsageTool
    => /\ \A v \in FailedVersions :
            /\ NumReqs(v) = failedPage[v]
            /\ ~(pc = "await" /\ version = v)
       /\ IdsOf(MapValues(allStoriesMap)) = ReceivedIds
       /\ pc = "done"
            => /\ result.kind = "ok"
               /\ result.stories_analyzed_count = Cardinality(ReceivedIds)
               /\ \A v \in Versions : NumReqs(v) >= 1

Wit_C5_FailureIsolated ==
    /\ UsageTool /\ pc = "done"
    /\ failedPage["published"] = 2 /\ failedPage["draft"] = 0
    /\ received["published"] # {}
    /\ received["draft"] \ received["published"] # {}

(***************************************************************************)
(* C6.  Whenever a page request failed during get-component-usage, the     *)
(* returned payload tells that the fetch failed or that the result is      *)
(* incomplete.                                                             *)
(***************************************************************************)
Claim_C6_FailureInPayload ==
    (UsageTool /\ pc = "done" /\ FailedVersions # {})
    => PayloadSignalsIncomplete(result)

(***************************************************************************)
(* C7.  Paging is sequential and never retried: the pages requested for a  *)
(* version are 1, 2, ..., k without gap or repetition, page n+1 is         *)
(* requested only once the response to page n has arrived, and no draft    *)
(* page is requested before the published paging has ended.                *)
(***************************************************************************)
Thm_C7_SequentialPaging ==
    UsageTool
    => /\ \A v \in Versions :
            /\ \A i \in 1..NumReqs(v) : PagesRequested(v)[i] = i
            /\ NumReqs(v) = answered[v] + (IF pc = "await" /\ version = v THEN 1 ELSE 0)
       /\ \A i, j \in 1..Len(reqLog) :
            (i < j /\ reqLog[i].version = "draft") => reqLog[j].version = "draft"
       /\ NumReqs("draft") > 0 => version = "draft"

Wit_C7_SequentialPaging ==
    /\ UsageTool /\ pc = "done"
    /\ PagesRequested("published") = << 1, 2 >>
    /\ PagesRequested("draft") = << 1, 2 >>
    /\ failedPage["draft"] = 2 /\ failedPage["published"] = 0

(***************************************************************************)
(* C8.  findComponentInValue on an acyclic content tree answers true if    *)
(* and only if some object of the tree (the root, or at any depth inside   *)
(* arrays or objects under any field name) has its component field equal   *)
(* to the name; it answers false for null, undefined, scalars and empty    *)
(* containers.                                                             *)
(***************************************************************************)
Thm_C8_ComponentMatch ==
    (call.fn = "findComponentInValue" /\ Acyclic(heap, root))
    => call.out = IF ComponentNodes(heap, root, call.arg) # {} THEN "true" ELSE "false"

Wit_C8_NestedMatch ==
    /\ call.fn = "findComponentInValue" /\ Acyclic(heap, root)
    /\ call.out = "true"
    /\ root = Ref(1) /\ heap[1].kind = "object"
    /\ 1 \notin ComponentNodes(heap, root, call.arg)
    /\ \E a \in Reach(heap, root) :
         /\ heap[a].kind = "array"
         /\ RefsOf(heap, {a}) \cap ComponentNodes(heap, root, call.arg) # {}

(***************************************************************************)
(* C9.  findComponentInValue on a content tree that contains a cycle and   *)
(* does not contain the component terminates and answers false.            *)
(***************************************************************************)
Claim_C9_FindCycleSafe ==
    (/\ call.fn = "findComponentInValue"
     /\ ~Acyclic(heap, root)
     /\ ComponentNodes(heap, root, call.arg) = {})
    => call.out = "false"

(***************************************************************************)
(* C10.  recursiveDeepSearch terminates with a boolean on every content    *)
(* tree, cyclic ones included; meeting a container that is already on the  *)
(* traversal path ends that branch only, so a matching string elsewhere in *)
(* the tree is still found.                                                *)
(***************************************************************************)
Thm_C10_DeepSearchCycleSafe ==
    call.fn = "recursiveDeepSearch"
    => /\ call.out \in {"true", "false"}
       /\ call.out = "true"
            <=> \E s \in StringLeaves(heap, root) :
                   includes(toLowerCase(s), toLowerCase(call.arg))

Wit_C10_MatchBesideCycle ==
    /\ call.fn = "recursiveDeepSearch" /\ call.out = "true"
    /\ root = Ref(1)
    /\ Len(heap[1].vals) = 2
    /\ heap[1].vals[1] = Ref(1)
    /\ heap[1].vals[2].t = "string"
    /\ call.out = "true"


(***************************************************************************)
(* C11.  recursiveDeepSearch on an acyclic content tree answers true if    *)
(* and only if some string held in the tree (the root itself, an item of   *)
(* an array or an own field of an object, at any depth) contains the query *)
(* once both are lower-cased; numbers, booleans, null and undefined never  *)
(* produce a match.                                                        *)
(***************************************************************************)
Thm_C11_DeepTextMatch ==
    (call.fn = "recursiveDeepSearch" /\ Acyclic(heap, root))
    => /\ call.out = IF \E s \in StringLeaves(heap, root) : LeafMatches(s, call.arg)
                     THEN "true" ELSE "false"
       /\ StringLeaves(heap, root) = {} => call.out = "false"

Wit_C11_NestedCaseFoldedMatch ==
    /\ call.fn = "recursiveDeepSearch" /\ Acyclic(heap, root)
    /\ call.out = "true" /\ call.arg = << "X" >>
    /\ root = Ref(1)
    /\ \A i \in 1..Len(heap[1].vals) : heap[1].vals[i].t # "string"
    /\ \E i \in 1..Len(heap[1].vals) : heap[1].vals[i].t = "number"


(***************************************************************************)
(* C14.  Accounting of the get-component-usage result:                     *)
(* stories_analyzed_count is the number of distinct ids received from the  *)
(* two versions, used_in_stories lists exactly the merged records whose    *)
(* content (the draft one where a draft record was received) holds the     *)
(* component, each once, and usage_count is the length of that list.       *)
(***************************************************************************)
Thm_C14_UsageAccounting ==
    (UsageTool /\ pc = "done")
    => /\ result.stories_analyzed_count = Cardinality(ReceivedIds)
       /\ {result.used_in_stories[i] : i \in 1..Len(result.used_in_stories)}
            = IdsUsing(result.component_name)
       /\ \A i, j \in 1..Len(result.used_in_stories) :
            i # j => result.used_in_stories[i] # result.used_in_stories[j]
       /\ result.usage_count = Len(result.used_in_stories)

Wit_C14_DraftContentCounts ==
    /\ UsageTool /\ pc = "done"
    /\ result.component_name = << "H", "x" >>
    /\ received["draft"] = {1}
    /\ received["published"] = {1, 3}
    /\ result.used_in_stories = << 1 >>
    /\ result.usage_count = 1
    /\ result.stories_analyzed_count = 2


(***************************************************************************)
(* C15.  The total reported in the pagination metadata of fetch-stories,   *)
(* fetch-stories-by-component and search-content: for content_status       *)
(* "both" it is the total of the draft response, whatever the published    *)
(* response reports; for "draft" or "published" it is the total of the one *)
(* response.                                                               *)
(***************************************************************************)
Thm_C15_ReportedTotal ==
    (/\ FetchTool \/ tool \in QueryTools
     /\ pc = "done" /\ result.kind = "ok")
    => TotalOf =
          settled[IF content_status = "both" THEN "draft" ELSE content_status].total_from_api

Wit_C15_PublishedTotalLarger ==
    /\ FetchTool /\ pc = "done" /\ result.kind = "ok" /\ content_status = "both"
    /\ settled["published"].total_from_api > settled["draft"].total_from_api
    /\ Len(settled["published"].stories_data) > Len(settled["draft"].stories_data)
    /\ result.total_items_from_api = settled["draft"].total_from_api


(***************************************************************************)
(* C16.  Order of the merged list: the records stand in the order of first *)
(* insertion, published records first in page order; a record whose id     *)
(* came from both versions stands where its published entry stood (and     *)
(* holds the draft data), and the records that came from draft only follow *)
(* all published ones in draft page order.                                 *)
(***************************************************************************)
Thm_C16_MergeOrder ==
    (/\ pc = "done" /\ result.kind = "ok"
     /\ UsageTool \/ content_status = "both")
    => /\ IdSeq(Merged) = ExpectedOrder
       /\ \A i, j \in 1..Len(Merged) :
            (i < j /\ Merged[j].id \in received["published"])
                => Merged[i].id \in received["published"]
       /\ \A i \in 1..Len(Merged) :
            Merged[i].id \in received["published"] \cap received["draft"]
                => Merged[i].version = "draft"

Wit_C16_OverwriteKeepsPosition ==
    /\ UsageTool /\ pc = "done"
    /\ IdSeq(Merged) = << 2, 1, 3 >>
    /\ received["published"] = {1, 2}
    /\ received["draft"] = {2, 3}
    /\ Merged[1].version = "draft"


(***************************************************************************)
(* C19.  Path round trip: for every structure t, every non-empty path p    *)
(* and every value v other than undefined, setByPath(t, p, v) followed by  *)
(* getValueByPath(t, p) yields v, also when intermediate segments are      *)
(* missing, are numeric, or held scalars before.                           *)
(***************************************************************************)
Claim_C19_PathRoundTrip ==
    call.fn = "setByPath" => call.out = call.value


(***************************************************************************)
(* C20.  Path lookup degrades to undefined.  As claimed: getValueByPath    *)
(* returns undefined, and never raises, when a segment is absent, when a   *)
(* sequence index is negative or not below the length, when an all-digits  *)
(* segment is applied to a value that is not a sequence, when a named      *)
(* segment is applied to a scalar or null, and when the segment names only *)
(* an inherited field of a mapping.                                        *)
(***************************************************************************)
Claim_C20_LookupDegrades ==
    call.fn = "getValueByPath"
    => \A i \in 1..Len(call.arg) :
          LET cur == ValueBefore(heap, root, call.arg, i)
          IN  (\/ StepUnresolved(heap, cur, call.arg[i])
               \/ IndexOnNonSequence(heap, cur, call.arg[i]))
              => call.out = Undefined

(***************************************************************************)
(* C20, amended.  The same, except that an all-digits segment applied to a *)
(* mapping is the name of a field: it resolves when the mapping has an own *)
(* field of that name, and yields undefined otherwise.                     *)
(***************************************************************************)
Thm_C20_LookupDegrades ==
    call.fn = "getValueByPath"
    => /\ \A i \in 1..Len(call.arg) :
             StepUnresolved(heap, ValueBefore(heap, root, call.arg, i), call.arg[i])
                => call.out = Undefined
       /\ (IsObject(heap, root) /\ Len(call.arg) = 1 /\ HasKey(heap[root.a].keys, call.arg[1]))
             => call.out = OwnValue(heap[root.a], call.arg[1])

Wit_C20_InheritedAfterIndex ==
    /\ call.fn = "getValueByPath"
    /\ root = Ref(1)
    /\ call.arg = << "body", "0", "toString" >>
    /\ call.out = Undefined

(***************************************************************************)
(* C12.  Schema validation result: missingFields is exactly the set of     *)
(* schema keys whose descriptor has required true and whose value in the   *)
(* content is undefined, extraneousFields is exactly the set of content    *)
(* keys that are no keys of the schema, errors holds one missing_required  *)
(* or extraneous_field diagnostic per such field, and isValid is true if   *)
(* and only if both sets are empty.  This holds for the result of          *)
(* validate-story-content and for every validation object fetch-stories    *)
(* attaches to a story.                                                    *)
(***************************************************************************)
Thm_C12_ValidationResult ==
    /\ StagesDone(ValidateTool)
          => ResultAgrees(result.validation, heap, heap[SchemaAddr], heap[ContentAddr])
    /\ (StagesDone("fetch-stories") /\ Unprojected(call.arg))
          => \A i \in 1..Len(result.stories) :
                LET story == heap[result.stories[i].a]
                IN  GetProp(story, "validation") # Undefined
                       => ResultAgrees(AttachedResult(heap, GetProp(story, "validation")),
                                       heap, heap[SchemaAddr],
                                       heap[GetProp(story, "content").a])

\* C12 witness: the content {title, extra} validated against the schema
\* {title required, subtitle required} gives missing [subtitle], extraneous
\* [extra] and isValid false.
Wit_C12_MissingAndExtraneous ==
    /\ StagesDone(ValidateTool)
    /\ heap[ContentAddr].keys = << "title", "extra" >>
    /\ heap[SchemaAddr].keys = << "title", "subtitle" >>
    /\ heap[SchemaAddr].vals = << Ref(ReqTrue), Ref(ReqTrue) >>
    /\ result.validation.missingFields = << "subtitle" >>
    /\ result.validation.extraneousFields = << "extra" >>
    /\ ~result.validation.isValid

(***************************************************************************)
(* C13.  Schema-not-found is a distinct outcome: when the schema lookup    *)
(* for the requested component returns nothing, no validation result is    *)
(* produced for any record.  validate-story-content returns the error      *)
(* payload that names the missing schema, and fetch-stories returns its    *)
(* stories without any validation annotation, with validation_schema_error *)
(* in the response metadata.  When the lookup finds a schema, neither      *)
(* signal appears.                                                         *)
(***************************************************************************)
Thm_C13_SchemaNotFound ==
    /\ (tool = "stages" /\ pc = "done" /\ call.fn = ValidateTool /\ call.data.kind = "ok")
          => IF LookupFindsNothing(call.data, call.component_name)
             THEN result = [kind |-> "error", error |-> "schema_not_found"]
             ELSE result # [kind |-> "error", error |-> "schema_not_found"]
    /\ (tool = "stages" /\ pc = "done" /\ call.fn = "fetch-stories"
        /\ call.data.kind = "ok")
          => IF LookupFindsNothing(call.data, call.arg.validate_schema)
             THEN /\ result.kind = "ok"
                  /\ result.validation_schema_error
                  /\ \A i \in 1..Len(result.stories) :
                        ~Annotated(heap, result.stories[i])
                  /\ (Unfiltered(call.arg) /\ Unprojected(call.arg))
                        => result.stories = call.stories
             ELSE result.kind = "ok" /\ ~result.validation_schema_error

\* C13 witness: fetch-stories is asked to validate against a component that
\* the listing holds without a schema; the story of that component comes
\* back as it was, and the metadata carries validation_schema_error.
Wit_C13_ListedWithoutSchema ==
    /\ tool = "stages" /\ pc = "done" /\ call.fn = "fetch-stories"
    /\ call.arg.validate_schema = Str(<< "h" >>)
    /\ call.data.isArray
    /\ call.data.components = << [name |-> Str(<< "h" >>), schema |-> Null] >>
    /\ Unprojected(call.arg)
    /\ call.stories = << StoryA >>
    /\ result.kind = "ok"
    /\ result.stories = << StoryA >>
    /\ result.validation_schema_error

(***************************************************************************)
(* C17.  Projection precedence in fetch-stories: when summary_mode is true *)
(* and a non-blank fields list is supplied, the output records are         *)
(* projected by the fields list alone; when only summary_mode is true the  *)
(* fixed summary path list is used; when neither is supplied the records   *)
(* are returned unprojected.  (Stated for calls without deep_filter and    *)
(* validate_schema, whose records are the merged ones.)                    *)
(***************************************************************************)
Claim_C17_ProjectionPrecedence ==
    (/\ StagesDone("fetch-stories")
     /\ Unfiltered(call.arg)
     /\ call.arg.validate_schema = Undefined)
    => /\ Len(result.stories) = Len(call.stories)
       /\ \A i \in 1..Len(result.stories) :
             LET out == result.stories[i]
                 src == call.stories[i]
             IN  IF call.arg.summary_mode = Bool(TRUE)
                 THEN IF NonBlank(call.arg.fields)
                      THEN ProjectedBy(heap, out, src, requestedPaths(call.arg.fields.s))
                      ELSE ProjectedBy(heap, out, src, PREDEFINED_SUMMARY_FIELDS)
                 ELSE NonBlank(call.arg.fields) \/ out = src

(***************************************************************************)
(* C18.  Projection content: for every record and requested path list, the *)
(* projected record contains, for each requested path whose value in the   *)
(* source record is not undefined (null included), that same value at the  *)
(* same path, and contains nothing else; requested paths that do not       *)
(* resolve are skipped, and the source record is not modified.  (Stated    *)
(* for calls without deep_filter and validate_schema, whose records are    *)
(* the merged ones.)                                                       *)
(***************************************************************************)
Claim_C18_ProjectionContent ==
    (/\ StagesDone("fetch-stories")
     /\ Unfiltered(call.arg)
     /\ call.arg.validate_schema = Undefined
     /\ PathsUsed(call.arg) # << >>)
    => LET paths    == PathsUsed(call.arg)
           resolved(src) == {j \in 1..Len(paths) :
                               GetPath(StageHeap, src, paths[j]) # Undefined}
       IN  /\ Len(result.stories) = Len(call.stories)
           /\ \A a \in DOMAIN StageHeap : heap[a] = StageHeap[a]
           /\ \A i \in 1..Len(result.stories) :
                 LET out == result.stories[i]
                     src == call.stories[i]
                 IN  /\ out.a \notin DOMAIN StageHeap
                     /\ \A j \in resolved(src) :
                           GetPath(heap, out, paths[j]) = GetPath(StageHeap, src, paths[j])
                     /\ \A q \in MemberPaths(heap, out, ProbeDepth) :
                           \E j \in resolved(src) :
                              \/ IsPrefix(q, PathParts(paths[j]))
                              \/ IsPrefix(PathParts(paths[j]), q)

(***************************************************************************)
(* C21.  deep_filter in fetch-stories: a merged record is kept if and only *)
(* if for every (path, expected) pair of deep_filter the string conversion *)
(* of the value at that path (taken relative to the record's content       *)
(* unless the path already starts with "content.") is exactly equal to     *)
(* expected; with an absent or empty deep_filter every record is kept, and *)
(* the relative order of the kept records is unchanged.  (Stated for calls *)
(* without validate_schema and projection, whose records are the kept      *)
(* ones.)                                                                  *)
(***************************************************************************)
Thm_C21_DeepFilter ==
    (/\ StagesDone("fetch-stories")
     /\ call.arg.validate_schema = Undefined
     /\ Unprojected(call.arg))
    => /\ result.stories =
             SelectSeq(call.stories,
                       LAMBDA story : KeptByFilter(StageHeap, story, call.arg.deep_filter))
       /\ (call.arg.deep_filter = Undefined \/ call.arg.deep_filter.entries = << >>)
             => result.stories = call.stories

\* C21 witness: the filter {extra: "undefined"} keeps the record without
\* content and the record whose content has no extra, in their order, and
\* drops the record between them whose content has one.
Wit_C21_KeepsUndefinedInOrder ==
    /\ StagesDone("fetch-stories")
    /\ call.arg.validate_schema = Undefined
    /\ Unprojected(call.arg)
    /\ call.arg.deep_filter =
          Filter(<< Entry(<< "extra" >>, << "u", "n", "d", "e", "f", "i", "n", "e", "d" >>) >>)
    /\ call.stories = << StoryC, StoryB, StoryA >>
    /\ result.stories = << StoryC, StoryA >>


\* C22: search-content type filtering.  With exactly one element in
\* content_types every remote request carries that type as content_type and
\* the analyzed records are all the fetched ones; with two or more elements
\* no request carries a content_type and the analyzed records are the fetched
\* ones whose content.component is listed; with content_types absent or empty
\* no request carries a content_type and all fetched records are analyzed;
\* stories_analyzed_count is the number of analyzed records.
Thm_C22_TypeFiltering ==
    tool = "search-content" =>
        LET types == call.content_types
            n     == TypeCount(types)
        IN  /\ \A i \in 1..Len(reqLog) :
                  reqLog[i].content_type =
                      IF n = 1 THEN Str(types.items[1]) ELSE Undefined
            /\ SearchReturned =>
                  /\ Len(reqLog) = IF content_status = "both" THEN 2 ELSE 1
                  /\ result.storiesToAnalyze =
                        IF n >= 2
                        THEN SelectSeq(result.fetched,
                                       LAMBDA story : OfListedType(story, types))
                        ELSE result.fetched
                  /\ result.stories_analyzed_count = Len(result.storiesToAnalyze)

\* C22 witness: a search with one listed type returned a record of another
\* type, which was analyzed, and both requests carried the type
Wit_C22_SingleTypeNotFilteredLocally ==
    /\ SearchReturned
    /\ TypeCount(call.content_types) = 1
    /\ Len(reqLog) = 2
    /\ result.stories_analyzed_count >= 1
    /\ \E i \in 1..Len(result.storiesToAnalyze) :
          ~OfListedType(result.storiesToAnalyze[i], call.content_types)


\* C23: structured failure for query tools.  Whenever a remote request made
\* by a query tool fails, the handler completes by returning a result object
\* (an error payload or a partial result): it never ends by throwing or
\* rejecting to its caller.
Claim_C23_StructuredFailure ==
    (tool \in QueryTools /\ pc = "done" /\ \E v \in Versions : settled[v].kind = "fail")
        => result.kind \in {"ok", "error"}


\* C24: pagination metadata consistency.  In a returned payload the reported
\* page count is ceil(reported total / per_page_requested), per_page_requested
\* is the page size sent to the remote service in every request (the
\* per_page argument, 25 by default, never more than 100), and the reported
\* count of the response is the length of the returned record list.
Claim_C24_PaginationMetadata ==
    (tool \in QueryTools /\ pc = "done" /\ result.kind = "ok") =>
        /\ result.paging.total_pages =
               CeilDiv(result.paging.total_items, result.paging.per_page_requested)
        /\ \A i \in 1..Len(reqLog) :
               reqLog[i].per_page = result.paging.per_page_requested
        /\ result.paging.per_page_requested <= MAX_PER_PAGE
        /\ tool = "search-content" =>
               result.matches_found_count = Len(result.matched_stories)
        /\ tool = "fetch-stories-by-component" =>
               result.stories_found_after_filter = Len(result.stories)


\* C25: search-content matching per record.  A record is matched exactly
\* when, for at least one path of fields_to_search, the value at that path
\* under content is a string containing the query case-insensitively or, only
\* when deep search is on, a container in which the deep text search
\* succeeds; with deep search off a field that resolves to a sequence or a
\* mapping never matches.  Each matched record occurs once in matched_stories,
\* in analyzed order, and matches_found_count is the length of that list.
Thm_C25_MatchingPerRecord ==
    SearchReturned =>
        /\ result.matched_stories =
               SelectSeq(result.storiesToAnalyze, LAMBDA story : ShouldMatch(story, call))
        /\ result.matches_found_count = Len(result.matched_stories)

\* C25 witness: with deep search off, a record whose only searched field is
\* a sequence holding the text was analyzed and not matched, and a record
\* before or after it was matched
Wit_C25_ContainerWithoutDeep ==
    /\ SearchReturned
    /\ ~call.deep_search_nested_components
    /\ Len(result.storiesToAnalyze) = 2
    /\ Len(result.matched_stories) = 1
    /\ \E i \in 1..2 :
          LET story == result.storiesToAnalyze[i]
          IN  /\ story.content.t = "ref"
              /\ \E j \in 1..Len(call.fields_to_search) :
                    LET value == ValueUnderContent(story, call.fields_to_search[j])
                    IN  value.t = "ref" /\ TextWithin(value, toLowerCase(call.query))
              /\ ~ShouldMatch(story, call)


\* C26: fetch-stories-by-component matches one level only.  A fetched record
\* is returned exactly when it has content and either content.component is
\* component_name or content.body is a sequence with a direct element whose
\* component is component_name; a component that occurs only deeper, or
\* under a field other than body, does not make the record match.  The
\* returned records keep the fetched order.
Thm_C26_OneLevelOnly ==
    ByComponentReturned =>
        /\ result.stories =
               SelectSeq(result.fetched,
                         LAMBDA story : DirectlyUses(story, call.component_name))
        /\ result.stories_found_after_filter = Len(result.stories)

\* C26 witness: a fetched record that holds the component only inside a
\* column of a grid in body and under footer was left out, while another
\* fetched record was returned
Wit_C26_DeeperOnlyLeftOut ==
    /\ ByComponentReturned
    /\ Len(result.fetched) = 2
    /\ Len(result.stories) = 1
    /\ \E i \in 1..2 :
          LET story == result.fetched[i]
          IN  /\ story.content.t = "ref"
              /\ \E a \in ReachableFrom({story.content.a}, {story.content.a}) :
                    GetProp(QueryHeap[a], "component") = Str(call.component_name)
              /\ ~DirectlyUses(story, call.component_name)


\* C27: create-story validation gate.  With validate_before_create set, no
\* create request is issued unless the content has a string component, a
\* schema for it was found and validation produced no diagnostics; in every
\* other case the handler returns without a create, publish or follow-up
\* fetch request.  A publish request is only issued after a create request
\* that succeeded and returned a story id.
Thm_C27_ValidationGate ==
    tool = CreateTool =>
        /\ (~Falsy(call.validate_before_create) /\ ~GatePassed) =>
               /\ ~Issued(PostStory) /\ ~Issued(PostPublish) /\ ~Issued(GetStory)
               /\ pc \in {"start", "schema", "done"}
        /\ \A i \in 1..Len(reqLog) :
               reqLog[i] = PostPublish =>
                   /\ \E j \in 1..(i - 1) : reqLog[j] = PostStory
                   /\ ~Falsy(call.storyId)
                   /\ result.kind \in {"running", "ok"} => result.storyId = call.storyId
                   /\ result.kind \notin {"running", "ok"}
                        => result.kind = "error" /\ Issued(GetStory)

\* C27 witness: a validated creation went through the gate, and the story
\* was created and published
Wit_C27_ValidatedCreatedPublished ==
    /\ tool = CreateTool /\ pc = "done"
    /\ call.validate_before_create = Bool(TRUE)
    /\ reqLog = << GetComponents, PostStory, PostPublish >>
    /\ result.kind = "ok" /\ result.publish_status = Bool(TRUE)


\* C28: bulk operation accounting.  Items are processed one at a time in
\* input order: the k-th item's request is issued only when the entries of
\* all earlier items are recorded, and a failed item does not stop the later
\* ones.  On return results has one entry per input item in input order,
\* successful_operations + failed_operations = total_processed = the number
\* of input items, and successful_operations is the number of entries with
\* status "success".
Thm_C28_BulkAccounting ==
    tool \in BulkTools =>
        /\ \A k \in 1..Len(MainRequests) :
               /\ MainRequests[k].item = k
               /\ MainRequests[k].id = call.items[k].id
        /\ Len(MainRequests) \in {Len(result.results), Len(result.results) + 1}
        /\ pc = "done" =>
               /\ Len(MainRequests) = Len(call.items)
               /\ Len(result.results) = Len(call.items)
               /\ \A k \in 1..Len(call.items) : result.results[k].id = call.items[k].id
               /\ result.total_processed = Len(call.items)
               /\ result.successful_operations + result.failed_operations
                      = result.total_processed
               /\ result.successful_operations = CountStatus(result.results, "success")
               /\ result.failed_operations = CountStatus(result.results, "error")

\* C28 witness: a call of three items returned after the first item failed
\* and the later two succeeded
Wit_C28_FailureThenSuccesses ==
    /\ tool \in BulkTools /\ pc = "done"
    /\ Len(call.items) = 3
    /\ result.results[1].status = "error"
    /\ result.results[2].status = "success"
    /\ result.results[3].status = "success"
    /\ result.failed_operations = 1


\* C29: the limit flag of get-component-usage is sticky across versions.  The
\* page counter is reset when the draft loop starts, but limitReached is
\* never reset: it starts false, each version loop that ends at the page cap
\* with more records believed to remain sets it, no other step changes it,
\* and the payload reports it.  So search_limit_reached is true exactly when
\* at least one of the two loops ended that way.
Thm_C29_StickyLimitFlag == [][LimitFlagStep]_vars

\* C29 witness: the call returned search_limit_reached true although the
\* draft loop ended after one page, below the cap: the flag set by the
\* published loop was kept
Wit_C29_FlagKeptFromPublished ==
    /\ tool = "get-component-usage" /\ pc = "done"
    /\ result.search_limit_reached
    /\ answered["published"] = MAX_PAGES
    /\ answered["draft"] < MAX_PAGES
    /\ pagesFetched < MAX_PAGES


\* C30: the visited set of recursiveDeepSearch tracks the current traversal
\* path only.  The search started with an empty set leaves it empty, and a
\* call on any value of the tree, entered with any set, returns with the set
\* as it was on entry, match or no match.  So a container held in two places
\* without a cycle is searched wherever it is met: entered with a set that
\* holds none of the containers below it, the call finds whatever string the
\* container holds, and the search from the root finds it too.
Thm_C30_VisitedRestored ==
    call.fn = "recursiveDeepSearch" =>
        /\ call.visited = {}
        /\ \A v \in SearchedValues : \A V \in SUBSET Addr :
              LET res == recursiveDeepSearch(heap, v, V, toLowerCase(call.arg), 1)
              IN  /\ res.visited = V
                  /\ (V \cap Reach(heap, v) = {}) =>
                        (res.r = "true" <=> HoldsText(v, call.arg))
        /\ \A b \in Reach(heap, root) :
              (HeldTwice(b) /\ HoldsText(Ref(b), call.arg)) => call.out = "true"

\* C30 witness: on a tree without a cycle, a container held in two places
\* holds the only matching string, and the search found it and left the
\* set empty
Wit_C30_SharedContainerSearched ==
    /\ call.fn = "recursiveDeepSearch" /\ call.out = "true" /\ call.visited = {}
    /\ Acyclic(heap, root)
    /\ \E b \in Reach(heap, root) :
          /\ HeldTwice(b)
          /\ Ref(b) # root
          /\ HoldsText(Ref(b), call.arg)
          /\ \A a \in Reach(heap, root) : \A i \in 1..Len(heap[a].vals) :
                heap[a].vals[i].t = "string" => a \in Reach(heap, Ref(b))

====
